---- MODULE Spec2Model ----
(***************************************************************************)
(* A model of vmf-forge: the generic block builder (parser.rs), the typed  *)
(* converters and serializers (vmf/*.rs), the document assembler           *)
(* (parse_vmf) and VmfFile::merge.                                         *)
(*                                                                         *)
(* Strings are TLA+ strings and are handled character by character where   *)
(* the code does so (number parsing, splitting on the carriage return,     *)
(* lower-casing).  A text is the sequence of its lines, each line without  *)
(* its terminating "\n"; every line the writers emit ends with "\n".       *)
(* Option<T> is a sequence of length 0 (None) or 1 (Some).                 *)
(* An IndexMap<String, String> is a sequence of <<key, value>> pairs with  *)
(* pairwise distinct keys.                                                 *)
(***************************************************************************)
EXTENDS Integers, Sequences, FiniteSets, TLC

\* ------------------------------------------------------------------------
\* Bounds of the model
\* ------------------------------------------------------------------------
MaxBlocks == 2

MaxMerges == 2

\* ------------------------------------------------------------------------
\* Option, Result and errors
\* ------------------------------------------------------------------------
None == <<>>

Some(x) == <<x>>

IsSome(o) == Len(o) = 1

Ok(v) == [ok |-> TRUE, val |-> v]

Err(e) == [ok |-> FALSE, err |-> e]

InvalidFormat(msg) == [kind |-> "InvalidFormat", key |-> msg]

ParseIntError(key) == [kind |-> "ParseInt", key |-> key]

ParseFloatError(key) == [kind |-> "ParseFloat", key |-> key]

ParseError == [kind |-> "Parse", key |-> ""]

\* ------------------------------------------------------------------------
\* Characters and numbers
\* ------------------------------------------------------------------------
CharAt(s, i) == SubSeq(s, i, i)

Digits == "0123456789"

Upper == "ABCDEFGHIJKLMNOPQRSTUVWXYZ"

Lower == "abcdefghijklmnopqrstuvwxyz"

\* position of the character c in the alphabet abc, 0 when it is not there
IndexIn(abc, c) ==
    IF \E i \in 1..Len(abc) : CharAt(abc, i) = c
    THEN CHOOSE i \in 1..Len(abc) : CharAt(abc, i) = c
    ELSE 0

IsDigits(s) == \A i \in 1..Len(s) : IndexIn(Digits, CharAt(s, i)) > 0

RECURSIVE DigitsValue(_)
DigitsValue(s) ==
    IF s = "" THEN 0
    ELSE 10 * DigitsValue(SubSeq(s, 1, Len(s) - 1))
         + (IndexIn(Digits, CharAt(s, Len(s))) - 1)

RECURSIVE NatToString(_)
NatToString(n) ==
    IF n < 10 THEN CharAt(Digits, n + 1)
    ELSE NatToString(n \div 10) \o CharAt(Digits, (n % 10) + 1)

\* i32::to_string, u64::to_string, ...
IntToString(n) == IF n < 0 THEN "-" \o NatToString(0 - n) ELSE NatToString(n)

\* The integer types of the code: signedness, largest value and largest
\* magnitude of a negative value, as decimal digit strings (the model's own
\* integers are narrower than u32 and u64).
I8 == [signed |-> TRUE, max |-> "127", minmag |-> "128"]

U8 == [signed |-> FALSE, max |-> "255", minmag |-> "0"]

U16 == [signed |-> FALSE, max |-> "65535", minmag |-> "0"]

I32 == [signed |-> TRUE, max |-> "2147483647", minmag |-> "2147483648"]

U32 == [signed |-> FALSE, max |-> "4294967295", minmag |-> "0"]

U64 == [signed |-> FALSE, max |-> "18446744073709551615", minmag |-> "0"]

Usize == U64

RECURSIVE StripZeros(_)
StripZeros(s) ==
    IF Len(s) > 1 /\ CharAt(s, 1) = "0" THEN StripZeros(Tail(s)) ELSE s

\* a <= b for digit strings of the same length
RECURSIVE DigitsLeqSameLen(_, _)
DigitsLeqSameLen(a, b) ==
    IF a = "" THEN TRUE
    ELSE LET da == IndexIn(Digits, CharAt(a, 1))
             db == IndexIn(Digits, CharAt(b, 1))
         IN  IF da < db THEN TRUE
             ELSE IF da > db THEN FALSE
             ELSE DigitsLeqSameLen(Tail(a), Tail(b))

\* a <= b for digit strings without leading zeros
DigitsLeqStripped(x, y) ==
    IF Len(x) # Len(y) THEN Len(x) < Len(y) ELSE DigitsLeqSameLen(x, y)

DigitsLeq(a, b) == DigitsLeqStripped(StripZeros(a), StripZeros(b))

\* the digits of a number of the type ty, neg telling that a "-" came first
ParseDigits(body, neg, ty) ==
    IF body = "" \/ ~IsDigits(body) THEN None
    ELSE IF ~DigitsLeq(body, IF neg THEN ty.minmag ELSE ty.max) THEN None
    ELSE Some(IF neg THEN 0 - DigitsValue(body) ELSE DigitsValue(body))

\* the text after the sign of a number: "-" is a sign for a signed type only
Unsigned(s, signed) ==
    IF s # "" /\ (CharAt(s, 1) = "+" \/ (CharAt(s, 1) = "-" /\ signed))
    THEN Tail(s) ELSE s

\* str::parse::<iN / uN>: an optional sign ("-" only for a signed type),
\* then at least one digit, and the value within the range of the type.
\* None stands for Err(ParseIntError).
ParseInt(s, ty) ==
    ParseDigits(Unsigned(s, ty.signed),
                s # "" /\ CharAt(s, 1) = "-" /\ ty.signed, ty)

\* "\t".repeat(n)
RECURSIVE Tabs(_)
Tabs(n) == IF n = 0 THEN "" ELSE "\t" \o Tabs(n - 1)

\* str::to_lowercase on the ASCII names the model uses
LowerChar(c, u) == IF u > 0 THEN CharAt(Lower, u) ELSE c

RECURSIVE ToLower(_)
ToLower(s) ==
    IF s = "" THEN ""
    ELSE LowerChar(CharAt(s, 1), IndexIn(Upper, CharAt(s, 1)))
         \o ToLower(Tail(s))

\* bool::to_string in place of to_01_string
ToBoolString(b) == IF b THEN "true" ELSE "false"

\* bool::to_01_string
To01String(b) == IF b THEN "1" ELSE "0"

\* str::split(sep) for a one-character separator: the fragments, in order
RECURSIVE SplitFrom(_, _, _)
SplitFrom(s, sep, acc) ==
    IF s = "" THEN <<acc>>
    ELSE IF CharAt(s, 1) = sep
         THEN <<acc>> \o SplitFrom(Tail(s), sep, "")
         ELSE SplitFrom(Tail(s), sep, acc \o CharAt(s, 1))

Split(s, sep) == SplitFrom(s, sep, "")

\* str::split_whitespace: the non-empty fragments between white space
RECURSIVE SplitWsFrom(_, _)
SplitWsFrom(s, acc) ==
    IF s = "" THEN (IF acc = "" THEN <<>> ELSE <<acc>>)
    ELSE IF CharAt(s, 1) \in {" ", "\t", "\r", "\n"}
         THEN (IF acc = "" THEN <<>> ELSE <<acc>>) \o SplitWsFrom(Tail(s), "")
         ELSE SplitWsFrom(Tail(s), acc \o CharAt(s, 1))

SplitWhitespace(s) == SplitWsFrom(s, "")

\* [String]::join(sep)
RECURSIVE Join(_, _)
Join(ss, sep) ==
    IF ss = <<>> THEN ""
    ELSE IF Len(ss) = 1 THEN ss[1]
    ELSE ss[1] \o sep \o Join(Tail(ss), sep)

\* str::strip_prefix
StripPrefix(s, pre) ==
    IF Len(s) >= Len(pre) /\ SubSeq(s, 1, Len(pre)) = pre
    THEN Some(SubSeq(s, Len(pre) + 1, Len(s)))
    ELSE None

\* An f32 that is a short decimal: mant / 10^scale with the sign apart, mant
\* not a multiple of 10 unless scale = 0.  Decimals of at most six
\* significant digits survive f32 and its shortest-representation Display.
RECURSIVE NormF32(_, _, _)
NormF32(neg, mant, scale) ==
    IF scale > 0 /\ mant % 10 = 0 THEN NormF32(neg, mant \div 10, scale - 1)
    ELSE [neg |-> neg, mant |-> mant, scale |-> scale]

\* the f32 of a sign, an integer part and a fraction part
ParseDecimal(neg, ip, fp) ==
    IF (ip = "" /\ fp = "") \/ ~IsDigits(ip) \/ ~IsDigits(fp) THEN None
    ELSE Some(NormF32(neg, DigitsValue(ip \o fp), Len(fp)))

\* the digits before and after the first "." of body, at position dot
SplitDecimal(neg, body, dot) ==
    IF dot = 0 THEN ParseDecimal(neg, body, "")
    ELSE ParseDecimal(neg, SubSeq(body, 1, dot - 1),
                      SubSeq(body, dot + 1, Len(body)))

UnsignedF32(neg, body) == SplitDecimal(neg, body, IndexIn(body, "."))

\* str::parse::<f32> on [+-]digits[.digits]; None stands for
\* Err(ParseFloatError)
ParseF32(s) ==
    UnsignedF32(s # "" /\ CharAt(s, 1) = "-", Unsigned(s, TRUE))

RECURSIVE Pow10(_)
Pow10(n) == IF n = 0 THEN 1 ELSE 10 * Pow10(n - 1)

RECURSIVE ZeroPad(_, _)
ZeroPad(s, n) == IF Len(s) >= n THEN s ELSE ZeroPad("0" \o s, n)

\* Display for f32
F32ToString(f) ==
    (IF f.neg THEN "-" ELSE "")
    \o NatToString(f.mant \div Pow10(f.scale))
    \o (IF f.scale = 0 THEN ""
        ELSE "." \o ZeroPad(NatToString(f.mant % Pow10(f.scale)), f.scale))

\* ------------------------------------------------------------------------
\* IndexMap<String, String>
\* ------------------------------------------------------------------------
\* position of the key in the map, 0 when absent
KvIndex(kv, key) ==
    IF \E i \in 1..Len(kv) : kv[i][1] = key
    THEN CHOOSE i \in 1..Len(kv) : kv[i][1] = key
    ELSE 0

\* the entry at position i of a map, None for position 0
KvAt(kv, i) == IF i = 0 THEN None ELSE Some(kv[i][2])

\* IndexMap::get
KvGet(kv, key) == KvAt(kv, KvIndex(kv, key))

\* IndexMap::insert: replaces the value in place or appends
KvPut(kv, i, key, value) ==
    IF i = 0 THEN Append(kv, <<key, value>>)
    ELSE [kv EXCEPT ![i] = <<key, value>>]

KvInsert(kv, key, value) == KvPut(kv, KvIndex(kv, key), key, value)

\* Vec::swap_remove: the last element takes the place of the removed one
VecSwapRemove(v, i) ==
    IF i = Len(v) THEN SubSeq(v, 1, Len(v) - 1)
    ELSE [j \in 1..(Len(v) - 1) |-> IF j = i THEN v[Len(v)] ELSE v[j]]

\* the map after IndexMap::swap_remove
KvSwapRemoveAt(kv, i) == IF i = 0 THEN kv ELSE VecSwapRemove(kv, i)

KvSwapRemove(kv, key) == KvSwapRemoveAt(kv, KvIndex(kv, key))

\* the map after IndexMap::shift_remove
KvShiftRemoveAt(kv, i) ==
    IF i = 0 THEN kv
    ELSE SubSeq(kv, 1, i - 1) \o SubSeq(kv, i + 1, Len(kv))

KvShiftRemove(kv, key) == KvShiftRemoveAt(kv, KvIndex(kv, key))

\* ------------------------------------------------------------------------
\* utils.rs
\* ------------------------------------------------------------------------
KeyNotFound(key) == InvalidFormat("'" \o key \o "' key not found")

\* Option::ok_or
OkOr(o, e) == IF IsSome(o) THEN Ok(o[1]) ELSE Err(e)

\* Result::ok
ResultOk(r) == IF r.ok THEN Some(r.val) ELSE None

get_key_ref(map, key) == OkOr(KvGet(map, key), KeyNotFound(key))

\* The functions that take a key return here their result alone.  They also
\* remove the key from the map (KvSwapRemove); the keys of a map are
\* distinct and no caller reads a taken key again or the order of the keys
\* that are left, so every call is made on the key_values the block came
\* with.
take_key_owned(map, key) == OkOr(KvGet(map, key), KeyNotFound(key))

\* value_string.parse::<T>().map_err(..) after take_key_owned(map, key)?
ParseTaken(taken, parsed, e) == IF ~taken.ok THEN taken ELSE OkOr(parsed, e)

ValueOf(taken) == IF taken.ok THEN taken.val ELSE ""

\* T = an integer type
take_and_parse_key(map, key, ty) ==
    ParseTaken(take_key_owned(map, key),
               ParseInt(ValueOf(take_key_owned(map, key)), ty),
               ParseIntError(key))

\* T = f32
take_and_parse_key_f32(map, key) ==
    ParseTaken(take_key_owned(map, key),
               ParseF32(ValueOf(take_key_owned(map, key))),
               ParseFloatError(key))

\* map.swap_remove(key).unwrap_or(default)
UnwrapOr(o, default) == IF IsSome(o) THEN o[1] ELSE default

take_key_or_default(map, key, default) == UnwrapOr(KvGet(map, key), default)

\* ------------------------------------------------------------------------
\* VmfBlock (lib.rs)
\* ------------------------------------------------------------------------
VmfBlock(name, key_values, blocks) ==
    [name |-> name, key_values |-> key_values, blocks |-> blocks]

\* VmfBlock::default(), what mem::take leaves behind
DefaultBlock == VmfBlock("", <<>>, <<>>)

\* one line "<indent>\t"key" "value""
KvLine(indent, key, value) ==
    indent \o "\t\"" \o key \o "\" \"" \o value \o "\""

RECURSIVE KvLines(_, _)
KvLines(indent, kv) ==
    IF kv = <<>> THEN <<>>
    ELSE <<KvLine(indent, kv[1][1], kv[1][2])>> \o KvLines(indent, Tail(kv))

RECURSIVE serialize(_, _)
RECURSIVE SerializeAll(_, _)
serialize(block, indent_level) ==
    LET indent == Tabs(indent_level)
    IN  <<indent \o block.name, indent \o "{">>
        \o KvLines(indent, block.key_values)
        \o SerializeAll(block.blocks, indent_level + 1)
        \o <<indent \o "}">>

SerializeAll(blocks, indent_level) ==
    IF blocks = <<>> THEN <<>>
    ELSE serialize(blocks[1], indent_level)
         \o SerializeAll(Tail(blocks), indent_level)

\* position of the first block with that name, 0 when there is none
\* (Iterator::position, Iterator::find)
BlockIndex(blocks, name) ==
    IF \E i \in 1..Len(blocks) : blocks[i].name = name
    THEN CHOOSE i \in 1..Len(blocks) :
            /\ blocks[i].name = name
            /\ \A j \in 1..(i - 1) : blocks[j].name # name
    ELSE 0

\* ------------------------------------------------------------------------
\* Editor (vmf/common.rs)
\* ------------------------------------------------------------------------
Editor_default ==
    [color |-> "255 255 255", visgroup_id |-> None, group_id |-> None,
     visgroup_shown |-> TRUE, visgroup_auto_shown |-> TRUE,
     comments |-> None, logical_pos |-> None]

\* str == "1" of a key that may be absent: .map_or(false, |v| v == "1")
IsOne(r) == IF r.ok THEN r.val = "1" ELSE FALSE

Editor_try_from(block) ==
    Ok([color |-> take_key_or_default(block.key_values, "color",
                                      "255 255 255"),
        visgroup_id |->
            ResultOk(take_and_parse_key(block.key_values, "visgroupid", I32)),
        group_id |->
            ResultOk(take_and_parse_key(block.key_values, "groupid", I32)),
        visgroup_shown |-> IsOne(get_key_ref(block.key_values, "visgroupshown")),
        visgroup_auto_shown |->
            IsOne(get_key_ref(block.key_values, "visgroupautoshown")),
        comments |-> KvGet(block.key_values, "comments"),
        logical_pos |-> KvGet(block.key_values, "logicalpos")])

\* the key-values both writers of an Editor produce, in order
Editor_key_values(val) ==
    <<<<"color", val.color>>>>
    \o (IF IsSome(val.visgroup_id)
        THEN <<<<"visgroupid", IntToString(val.visgroup_id[1])>>>> ELSE <<>>)
    \o (IF IsSome(val.group_id)
        THEN <<<<"groupid", IntToString(val.group_id[1])>>>> ELSE <<>>)
    \o <<<<"visgroupshown", To01String(val.visgroup_shown)>>,
         <<"visgroupautoshown", To01String(val.visgroup_auto_shown)>>>>
    \o (IF IsSome(val.comments)
        THEN <<<<"comments", val.comments[1]>>>> ELSE <<>>)
    \o (IF IsSome(val.logical_pos)
        THEN <<<<"logicalpos", val.logical_pos[1]>>>> ELSE <<>>)

\* From<Editor> for VmfBlock
Editor_into(val) == VmfBlock("editor", Editor_key_values(val), <<>>)

Editor_to_vmf_string(val, indent_level) ==
    LET indent == Tabs(indent_level)
    IN  <<indent \o "editor", indent \o "{",
          KvLine(indent, "color", val.color)>>
        \o (IF IsSome(val.visgroup_id)
            THEN <<KvLine(indent, "visgroupid", IntToString(val.visgroup_id[1]))>>
            ELSE <<>>)
        \o (IF IsSome(val.group_id)
            THEN <<KvLine(indent, "groupid", IntToString(val.group_id[1]))>>
            ELSE <<>>)
        \o <<KvLine(indent, "visgroupshown", To01String(val.visgroup_shown)),
             KvLine(indent, "visgroupautoshown",
                    To01String(val.visgroup_auto_shown))>>
        \o (IF IsSome(val.comments)
            THEN <<KvLine(indent, "comments", val.comments[1])>> ELSE <<>>)
        \o (IF IsSome(val.logical_pos)
            THEN <<KvLine(indent, "logicalpos", val.logical_pos[1])>>
            ELSE <<>>)
        \o <<indent \o "}">>

\* ------------------------------------------------------------------------
\* Group (vmf/world.rs)
\* ------------------------------------------------------------------------
\* str::eq_ignore_ascii_case
EqIgnoreAsciiCase(a, b) == ToLower(a) = ToLower(b)

\* the loop of Group::try_from: the last editor child wins
RECURSIVE Group_editor(_, _)
Group_editor(blocks, editor) ==
    IF blocks = <<>> THEN editor
    ELSE Group_editor(Tail(blocks),
            IF EqIgnoreAsciiCase(blocks[1].name, "editor")
            THEN Some(Editor_try_from(blocks[1]).val)
            ELSE editor)

Group_new(id, editor) ==
    IF ~id.ok THEN id
    ELSE Ok([id |-> id.val, editor |-> UnwrapOr(editor, Editor_default)])

Group_try_from(block) ==
    Group_new(take_and_parse_key(block.key_values, "id", U32),
              Group_editor(block.blocks, None))

\* From<Group> for VmfBlock
Group_into(val) ==
    VmfBlock("group", <<<<"id", IntToString(val.id)>>>>,
             <<Editor_into(val.editor)>>)

Group_to_vmf_string(val, indent_level) ==
    LET indent == Tabs(indent_level)
    IN  <<indent \o "group", indent \o "{",
          KvLine(indent, "id", IntToString(val.id))>>
        \o Editor_to_vmf_string(val.editor, indent_level + 1)
        \o <<indent \o "}">>

\* ------------------------------------------------------------------------
\* DispRows (vmf/world.rs)
\* ------------------------------------------------------------------------
DispRows_default == [rows |-> <<>>]

\* Vec::resize(n, String::new()) for n > Len(rows)
Resize(rows, n) == [i \in 1..n |-> IF i <= Len(rows) THEN rows[i] ELSE ""]

\* rows.push(value) in place of the resize and the assignment
SetRowPush(rows, index, value) == Append(rows, value)

\* rows[index] = value after the resize; rows[index] of the code is
\* rows[index + 1] here
SetRow(rows, index, value) ==
    [(IF index >= Len(rows) THEN Resize(rows, index + 1) ELSE rows)
        EXCEPT ![index + 1] = value]

\* the loop of DispRows::try_from
RECURSIVE DispRows_loop(_, _)
RECURSIVE DispRows_row(_, _, _, _)
DispRows_loop(kv, rows) ==
    IF kv = <<>> THEN Ok([rows |-> rows])
    ELSE IF ~IsSome(StripPrefix(kv[1][1], "row"))
    THEN DispRows_loop(Tail(kv), rows)
    ELSE DispRows_row(kv, rows, StripPrefix(kv[1][1], "row")[1],
                      ParseInt(StripPrefix(kv[1][1], "row")[1], Usize))

\* the row kv[1], index being stripped_idx.parse::<usize>()
DispRows_row(kv, rows, stripped_idx, index) ==
    IF ~IsSome(index) THEN Err(ParseIntError(kv[1][1]))
    ELSE DispRows_loop(Tail(kv), SetRow(rows, index[1], kv[1][2]))

DispRows_try_from(block) == DispRows_loop(block.key_values, <<>>)

RowKey(i) == "row" \o IntToString(i)

DispRows_into_vmf_block(val, name) ==
    VmfBlock(name,
             [i \in 1..Len(val.rows) |-> <<RowKey(i - 1), val.rows[i]>>],
             <<>>)

DispRows_to_vmf_string(val, indent_level, name) ==
    LET indent == Tabs(indent_level)
    IN  <<indent \o name, indent \o "{">>
        \o [i \in 1..Len(val.rows) |->
                KvLine(indent, RowKey(i - 1), val.rows[i])]
        \o <<indent \o "}">>

\* ------------------------------------------------------------------------
\* DispInfo (vmf/world.rs)
\* ------------------------------------------------------------------------
\* <<result, blocks after the call>>
\* first error of a sequence of results, or the sequence of their values:
\* a loop that converts with ? and pushes, Iterator::collect to a Result
AllOk(results) == \A i \in 1..Len(results) : results[i].ok

FirstErr(results) ==
    results[CHOOSE i \in 1..Len(results) :
                /\ ~results[i].ok
                /\ \A j \in 1..(i - 1) : results[j].ok]

Collect(results) ==
    IF AllOk(results)
    THEN Ok([i \in 1..Len(results) |-> results[i].val])
    ELSE FirstErr(results)

\* take_block(blocks, name): the result
TakeBlockAt(blocks, idx, name) ==
    IF idx = 0
    THEN Err(InvalidFormat("Missing " \o name \o " block in dispinfo"))
    ELSE Ok(blocks[idx])

\* a take_block that finds a block only at the head of the list
take_block_head(blocks, name) ==
    IF blocks # <<>> /\ blocks[1].name = name THEN Ok(blocks[1])
    ELSE Err(InvalidFormat("Missing " \o name \o " block in dispinfo"))

take_block(blocks, name) == TakeBlockAt(blocks, BlockIndex(blocks, name), name)

\* take_block(blocks, name): the blocks that are left, by blocks.swap_remove
AfterTakeAt(blocks, idx) == IF idx = 0 THEN blocks ELSE VecSwapRemove(blocks, idx)

AfterTake(blocks, name) == AfterTakeAt(blocks, BlockIndex(blocks, name))

\* take_block for each of the names in turn: the results and the blocks left
RECURSIVE take_blocks(_, _, _)
take_blocks(blocks, names, taken) ==
    IF names = <<>> THEN [taken |-> taken, blocks |-> blocks]
    ELSE take_blocks(AfterTake(blocks, names[1]), Tail(names),
                     Append(taken, take_block(blocks, names[1])))

\* the numbers of one allowed_verts value
parse_verts(parts) ==
    Collect([i \in 1..Len(parts) |->
                OkOr(ParseInt(parts[i], I32), ParseIntError(parts[i]))])

VertsEntry(key, verts) ==
    IF verts.ok THEN Ok(<<key, verts.val>>) ELSE verts

parse_allowed_verts(block) ==
    Collect([i \in 1..Len(block.key_values) |->
                VertsEntry(block.key_values[i][1],
                           parse_verts(SplitWhitespace(block.key_values[i][2])))])

VertsToString(values) ==
    Join([i \in 1..Len(values) |-> IntToString(values[i])], " ")

allowed_verts_into_vmf_block(allowed_verts) ==
    VmfBlock("allowed_verts",
             [i \in 1..Len(allowed_verts) |->
                <<allowed_verts[i][1], VertsToString(allowed_verts[i][2])>>],
             <<>>)

allowed_verts_to_vmf_string(allowed_verts, indent_level) ==
    LET indent == Tabs(indent_level)
    IN  <<indent \o "allowed_verts", indent \o "{">>
        \o [i \in 1..Len(allowed_verts) |->
                KvLine(indent, allowed_verts[i][1],
                       VertsToString(allowed_verts[i][2]))]
        \o <<indent \o "}">>

\* an optional sub-block of dispinfo: the first block with that name among
\* those left, an empty DispRows when there is none
OptionalRowsAt(blocks, idx) ==
    IF idx = 0 THEN Ok(DispRows_default) ELSE DispRows_try_from(blocks[idx])

OptionalRows(blocks, name) == OptionalRowsAt(blocks, BlockIndex(blocks, name))

\* the value of a result that is only read when the result is Ok
BlockOfResult(r) == IF r.ok THEN r.val ELSE DefaultBlock

\* the body of DispInfo::try_from, each ? in the order of the code
DispInfo_new(blocks, offsets, offset_normals, power, start_position, flags, elevation, subdiv, normals, distances, alphas, triangle_tags, allowed_verts) ==
    IF ~blocks.ok THEN blocks
    ELSE IF ~offsets.ok THEN offsets
    ELSE IF ~offset_normals.ok THEN offset_normals
    ELSE IF ~power.ok THEN power
    ELSE IF ~start_position.ok THEN start_position
    ELSE IF ~elevation.ok THEN elevation
    ELSE IF ~subdiv.ok THEN subdiv
    ELSE IF ~normals.ok THEN normals
    ELSE IF ~distances.ok THEN distances
    ELSE IF ~alphas.ok THEN alphas
    ELSE IF ~triangle_tags.ok THEN triangle_tags
    ELSE IF ~allowed_verts.ok THEN allowed_verts
    ELSE Ok([power |-> power.val,
             start_position |-> start_position.val,
             flags |-> ResultOk(flags),
             elevation |-> elevation.val,
             subdiv |-> subdiv.val = "1",
             normals |-> normals.val,
             distances |-> distances.val,
             offsets |-> offsets.val,
             offset_normals |-> offset_normals.val,
             alphas |-> alphas.val,
             triangle_tags |-> triangle_tags.val,
             allowed_verts |-> allowed_verts.val])

\* t: the five required blocks taken, and the blocks left
DispInfo_taken(t, kv) ==
    DispInfo_new(Collect(t.taken),
                 OptionalRows(t.blocks, "offsets"),
                 OptionalRows(t.blocks, "offset_normals"),
                 take_and_parse_key(kv, "power", U8),
                 take_key_owned(kv, "startposition"),
                 take_and_parse_key(kv, "flags", U32),
                 take_and_parse_key_f32(kv, "elevation"),
                 get_key_ref(kv, "subdiv"),
                 DispRows_try_from(BlockOfResult(t.taken[1])),
                 DispRows_try_from(BlockOfResult(t.taken[2])),
                 DispRows_try_from(BlockOfResult(t.taken[3])),
                 DispRows_try_from(BlockOfResult(t.taken[4])),
                 parse_allowed_verts(BlockOfResult(t.taken[5])))

DispInfo_try_from(block) ==
    DispInfo_taken(take_blocks(block.blocks,
                               <<"normals", "distances", "alphas",
                                 "triangle_tags", "allowed_verts">>, <<>>),
                   block.key_values)

\* From<DispInfo> for VmfBlock
DispInfo_into(val) ==
    VmfBlock("dispinfo",
        <<<<"power", IntToString(val.power)>>,
          <<"startposition", val.start_position>>,
          <<"elevation", F32ToString(val.elevation)>>,
          <<"subdiv", To01String(val.subdiv)>>>>
        \o (IF IsSome(val.flags)
            THEN <<<<"flags", IntToString(val.flags[1])>>>> ELSE <<>>),
        <<DispRows_into_vmf_block(val.normals, "normals"),
          DispRows_into_vmf_block(val.distances, "distances"),
          DispRows_into_vmf_block(val.offsets, "offsets"),
          DispRows_into_vmf_block(val.offset_normals, "offset_normals"),
          DispRows_into_vmf_block(val.alphas, "alphas"),
          DispRows_into_vmf_block(val.triangle_tags, "triangle_tags"),
          allowed_verts_into_vmf_block(val.allowed_verts)>>)

DispInfo_to_vmf_string(val, indent_level) ==
    LET indent == Tabs(indent_level)
    IN  <<indent \o "dispinfo", indent \o "{",
          KvLine(indent, "power", IntToString(val.power)),
          KvLine(indent, "startposition", val.start_position)>>
        \o (IF IsSome(val.flags)
            THEN <<KvLine(indent, "flags", IntToString(val.flags[1]))>>
            ELSE <<>>)
        \o <<KvLine(indent, "elevation", F32ToString(val.elevation)),
             KvLine(indent, "subdiv", To01String(val.subdiv))>>
        \o DispRows_to_vmf_string(val.normals, indent_level + 1, "normals")
        \o DispRows_to_vmf_string(val.distances, indent_level + 1, "distances")
        \o DispRows_to_vmf_string(val.offsets, indent_level + 1, "offsets")
        \o DispRows_to_vmf_string(val.offset_normals, indent_level + 1,
                                  "offset_normals")
        \o DispRows_to_vmf_string(val.alphas, indent_level + 1, "alphas")
        \o DispRows_to_vmf_string(val.triangle_tags, indent_level + 1,
                                  "triangle_tags")
        \o allowed_verts_to_vmf_string(val.allowed_verts, indent_level + 1)
        \o <<indent \o "}">>

\* ------------------------------------------------------------------------
\* Side (vmf/world.rs)
\* ------------------------------------------------------------------------
\* Some(x) of an Ok(x), the error of an Err
OkSome(r) == IF r.ok THEN Ok(Some(r.val)) ELSE r

\* the dispinfo of a side: the first child block of that name
Side_dispinfo(blocks, idx) ==
    IF idx = 0 THEN Ok(None) ELSE OkSome(DispInfo_try_from(blocks[idx]))

\* Side::try_from with rotation and flags read as required keys
Side_new_strict(plane, material, u_axis, v_axis, id, lightmap_scale, smoothing_groups, rotation, flags, dispinfo) ==
    IF ~plane.ok THEN plane
    ELSE IF ~material.ok THEN material
    ELSE IF ~u_axis.ok THEN u_axis
    ELSE IF ~v_axis.ok THEN v_axis
    ELSE IF ~id.ok THEN id
    ELSE IF ~lightmap_scale.ok THEN lightmap_scale
    ELSE IF ~smoothing_groups.ok THEN smoothing_groups
    ELSE IF ~rotation.ok THEN rotation
    ELSE IF ~flags.ok THEN flags
    ELSE IF ~dispinfo.ok THEN dispinfo
    ELSE Ok([id |-> id.val,
             plane |-> plane.val,
             material |-> material.val,
             u_axis |-> u_axis.val,
             v_axis |-> v_axis.val,
             rotation |-> ResultOk(rotation),
             lightmap_scale |-> lightmap_scale.val,
             smoothing_groups |-> smoothing_groups.val,
             flags |-> ResultOk(flags),
             dispinfo |-> dispinfo.val])

\* the body of Side::try_from, each ? in the order of the code
Side_new(plane, material, u_axis, v_axis, id, lightmap_scale, smoothing_groups, rotation, flags, dispinfo) ==
    IF ~plane.ok THEN plane
    ELSE IF ~material.ok THEN material
    ELSE IF ~u_axis.ok THEN u_axis
    ELSE IF ~v_axis.ok THEN v_axis
    ELSE IF ~id.ok THEN id
    ELSE IF ~lightmap_scale.ok THEN lightmap_scale
    ELSE IF ~smoothing_groups.ok THEN smoothing_groups
    ELSE IF ~dispinfo.ok THEN dispinfo
    ELSE Ok([id |-> id.val,
             plane |-> plane.val,
             material |-> material.val,
             u_axis |-> u_axis.val,
             v_axis |-> v_axis.val,
             rotation |-> ResultOk(rotation),
             lightmap_scale |-> lightmap_scale.val,
             smoothing_groups |-> smoothing_groups.val,
             flags |-> ResultOk(flags),
             dispinfo |-> dispinfo.val])

Side_try_from(block) ==
    Side_new(take_key_owned(block.key_values, "plane"),
             take_key_owned(block.key_values, "material"),
             take_key_owned(block.key_values, "uaxis"),
             take_key_owned(block.key_values, "vaxis"),
             take_and_parse_key(block.key_values, "id", U32),
             take_and_parse_key(block.key_values, "lightmapscale", U16),
             take_and_parse_key(block.key_values, "smoothing_groups", I32),
             take_and_parse_key_f32(block.key_values, "rotation"),
             take_and_parse_key(block.key_values, "flags", U32),
             Side_dispinfo(block.blocks, BlockIndex(block.blocks, "dispinfo")))

\* From<Side> for VmfBlock
Side_into(val) ==
    VmfBlock("side",
        <<<<"id", IntToString(val.id)>>,
          <<"plane", val.plane>>,
          <<"material", val.material>>,
          <<"uaxis", val.u_axis>>,
          <<"vaxis", val.v_axis>>,
          <<"lightmapscale", IntToString(val.lightmap_scale)>>,
          <<"smoothing_groups", IntToString(val.smoothing_groups)>>>>
        \o (IF IsSome(val.rotation)
            THEN <<<<"rotation", F32ToString(val.rotation[1])>>>> ELSE <<>>)
        \o (IF IsSome(val.flags)
            THEN <<<<"flags", IntToString(val.flags[1])>>>> ELSE <<>>),
        IF IsSome(val.dispinfo) THEN <<DispInfo_into(val.dispinfo[1])>>
        ELSE <<>>)

Side_to_vmf_string(val, indent_level) ==
    LET indent == Tabs(indent_level)
    IN  <<indent \o "side", indent \o "{",
          KvLine(indent, "id", IntToString(val.id)),
          KvLine(indent, "plane", val.plane),
          KvLine(indent, "material", val.material),
          KvLine(indent, "uaxis", val.u_axis),
          KvLine(indent, "vaxis", val.v_axis)>>
        \o (IF IsSome(val.rotation)
            THEN <<KvLine(indent, "rotation", F32ToString(val.rotation[1]))>>
            ELSE <<>>)
        \o <<KvLine(indent, "lightmapscale", IntToString(val.lightmap_scale)),
             KvLine(indent, "smoothing_groups",
                    IntToString(val.smoothing_groups))>>
        \o (IF IsSome(val.flags)
            THEN <<KvLine(indent, "flags", IntToString(val.flags[1]))>>
            ELSE <<>>)
        \o (IF IsSome(val.dispinfo)
            THEN DispInfo_to_vmf_string(val.dispinfo[1], indent_level + 1)
            ELSE <<>>)
        \o <<indent \o "}">>

\* ------------------------------------------------------------------------
\* Solid (vmf/world.rs)
\* ------------------------------------------------------------------------
\* the loop of Solid::try_from over the child blocks
\* the loop of Solid::try_from over the child blocks
RECURSIVE Solid_loop(_, _)
RECURSIVE Solid_push(_, _, _)
Solid_loop(blocks, solid) ==
    IF blocks = <<>> THEN Ok(solid)
    ELSE IF blocks[1].name = "side"
    THEN Solid_push(blocks, solid, Side_try_from(blocks[1]))
    ELSE IF blocks[1].name = "editor"
    THEN Solid_loop(Tail(blocks),
            [solid EXCEPT !.editor = Editor_try_from(blocks[1]).val])
    ELSE Solid_loop(Tail(blocks), solid)

\* solid.sides.push(Side::try_from(inner_block)?)
Solid_push(blocks, solid, side) ==
    IF ~side.ok THEN side
    ELSE Solid_loop(Tail(blocks), [solid EXCEPT !.sides = Append(@, side.val)])

Solid_new(id, blocks) ==
    IF ~id.ok THEN id
    ELSE Solid_loop(blocks,
            [id |-> id.val, sides |-> <<>>, editor |-> Editor_default])

Solid_try_from(block) ==
    Solid_new(take_and_parse_key(block.key_values, "id", U64), block.blocks)

\* From<Solid> for VmfBlock
Solid_into(val) ==
    VmfBlock("solid", <<<<"id", IntToString(val.id)>>>>,
             [i \in 1..Len(val.sides) |-> Side_into(val.sides[i])]
             \o <<Editor_into(val.editor)>>)

RECURSIVE Sides_to_vmf_string(_, _)
Sides_to_vmf_string(sides, indent_level) ==
    IF sides = <<>> THEN <<>>
    ELSE Side_to_vmf_string(sides[1], indent_level)
         \o Sides_to_vmf_string(Tail(sides), indent_level)

Solid_to_vmf_string(val, indent_level) ==
    LET indent == Tabs(indent_level)
    IN  <<indent \o "solid", indent \o "{",
          KvLine(indent, "id", IntToString(val.id))>>
        \o Sides_to_vmf_string(val.sides, indent_level + 1)
        \o Editor_to_vmf_string(val.editor, indent_level + 1)
        \o <<indent \o "}">>

RECURSIVE Solids_to_vmf_string(_, _)
Solids_to_vmf_string(solids, indent_level) ==
    IF solids = <<>> THEN <<>>
    ELSE Solid_to_vmf_string(solids[1], indent_level)
         \o Solids_to_vmf_string(Tail(solids), indent_level)

\* ------------------------------------------------------------------------
\* World (vmf/world.rs)
\* ------------------------------------------------------------------------
World_default ==
    [key_values |-> <<>>, solids |-> <<>>, hidden |-> <<>>, group |-> None]

\* the loop of World::try_from over the child blocks; a hidden child gives
\* its first child, as a Solid
RECURSIVE World_loop(_, _)
RECURSIVE World_push(_, _, _, _)
World_loop(blocks, world) ==
    IF blocks = <<>> THEN Ok(world)
    ELSE IF blocks[1].name = "solid"
    THEN World_push(blocks, world, "solids", Solid_try_from(blocks[1]))
    ELSE IF blocks[1].name = "group"
    THEN World_loop(Tail(blocks),
            [world EXCEPT !.group = ResultOk(Group_try_from(blocks[1]))])
    ELSE IF blocks[1].name = "hidden" /\ blocks[1].blocks # <<>>
    THEN World_push(blocks, world, "hidden",
                    Solid_try_from(blocks[1].blocks[1]))
    ELSE World_loop(Tail(blocks), world)

\* every solid pushed to world.solids, the hidden ones as well
World_push_solids(blocks, world, field, solid) ==
    IF ~solid.ok THEN solid
    ELSE World_loop(Tail(blocks),
            [world EXCEPT !.solids = Append(@, solid.val)])

\* world.solids.push(Solid::try_from(..)?), world.hidden.push(..)
World_push(blocks, world, field, solid) ==
    IF ~solid.ok THEN solid
    ELSE World_loop(Tail(blocks),
            [world EXCEPT ![field] = Append(@, solid.val)])

World_try_from(block) ==
    World_loop(block.blocks,
        [key_values |-> block.key_values, solids |-> <<>>, hidden |-> <<>>,
         group |-> None])

\* From<World> for VmfBlock
World_into(val) ==
    VmfBlock("world", val.key_values,
        [i \in 1..Len(val.solids) |-> Solid_into(val.solids[i])]
        \o [i \in 1..Len(val.hidden) |->
                VmfBlock("hidden", <<>>, <<Solid_into(val.hidden[i])>>)]
        \o (IF IsSome(val.group) THEN <<Group_into(val.group[1])>> ELSE <<>>))

\* the "Hidden" block of World::to_vmf_string
World_hidden_to_vmf_string(hidden, indent_level) ==
    LET indent == Tabs(indent_level)
    IN  IF hidden # <<>>
        THEN <<indent \o "\tHidden", indent \o "\t{">>
             \o Solids_to_vmf_string(hidden, indent_level + 2)
             \o <<indent \o "\t}">>
        ELSE <<>>

World_to_vmf_string(val, indent_level) ==
    LET indent == Tabs(indent_level)
    IN  <<indent \o "world", indent \o "{">>
        \o KvLines(indent, val.key_values)
        \o Solids_to_vmf_string(val.solids, indent_level + 1)
        \o World_hidden_to_vmf_string(val.hidden, indent_level)
        \o (IF IsSome(val.group)
            THEN Group_to_vmf_string(val.group[1], indent_level + 1)
            ELSE <<>>)
        \o <<indent \o "}">>

\* ------------------------------------------------------------------------
\* Entity (vmf/entities.rs)
\* ------------------------------------------------------------------------
Entity_default ==
    [key_values |-> <<>>, connections |-> None, solids |-> None,
     editor |-> Editor_default, is_hidden |-> FALSE]

\* one tuple per fragment of a value
ConnectionParts(key, parts) == [i \in 1..Len(parts) |-> <<key, parts[i]>>]

RECURSIVE process_connections_loop(_)
process_connections_loop(map) ==
    IF map = <<>> THEN <<>>
    ELSE ConnectionParts(map[1][1], Split(map[1][2], "\r"))
         \o process_connections_loop(Tail(map))

process_connections(map) ==
    IF map = <<>> THEN None ELSE Some(process_connections_loop(map))

\* the loop of Entity::try_from over the child blocks; a hidden child gives
\* its first child, as a Solid
RECURSIVE Entity_loop(_, _, _)
RECURSIVE Entity_push(_, _, _, _)
Entity_loop(blocks, ent, solids) ==
    IF blocks = <<>>
    THEN Ok(IF solids # <<>> THEN [ent EXCEPT !.solids = Some(solids)]
            ELSE ent)
    ELSE IF blocks[1].name = "editor"
    THEN Entity_loop(Tail(blocks),
            [ent EXCEPT !.editor = Editor_try_from(blocks[1]).val], solids)
    ELSE IF blocks[1].name = "connections"
    THEN Entity_loop(Tail(blocks),
            [ent EXCEPT !.connections =
                process_connections(blocks[1].key_values)], solids)
    ELSE IF blocks[1].name = "solid"
    THEN Entity_push(blocks, ent, solids, Solid_try_from(blocks[1]))
    ELSE IF blocks[1].name = "hidden" /\ blocks[1].blocks # <<>>
    THEN Entity_push(blocks, ent, solids,
                     Solid_try_from(blocks[1].blocks[1]))
    ELSE Entity_loop(Tail(blocks), ent, solids)

\* solids.push(Solid::try_from(..)?)
Entity_push(blocks, ent, solids, solid) ==
    IF ~solid.ok THEN solid
    ELSE Entity_loop(Tail(blocks), ent, Append(solids, solid.val))

Entity_try_from(block) ==
    Entity_loop(block.blocks,
        [Entity_default EXCEPT !.key_values = block.key_values], <<>>)

\* Entity::new
Entity_new(classname, id) ==
    [Entity_default EXCEPT
        !.key_values = <<<<"classname", classname>>, <<"id", IntToString(id)>>>>]

\* Entity::set
Entity_set(self, key, value) ==
    [self EXCEPT !.key_values = KvInsert(@, key, value)]

\* Entity::swap_remove_key: the entity after the call and the value returned
Entity_swap_remove_key(self, key) ==
    [self |-> [self EXCEPT !.key_values = KvSwapRemove(@, key)],
     ret |-> KvGet(self.key_values, key)]

\* Entity::remove_key: the entity after the call and the value returned
Entity_remove_key(self, key) ==
    [self |-> [self EXCEPT !.key_values = KvShiftRemove(@, key)],
     ret |-> KvGet(self.key_values, key)]

\* the character U+001B of the connection strings; the strings of the model
\* have no escape for it and write the form feed in its place
ESC == "\f"

\* Entity::add_connection with every connection kept once
Entity_add_connection_once(self, output, target_entity, input, parms, delay, fire_limit) ==
    LET input_result ==
            target_entity \o ESC \o input \o ESC \o parms \o ESC
            \o F32ToString(delay) \o ESC \o IntToString(fire_limit)
    IN  IF IsSome(self.connections)
           /\ \A i \in 1..Len(self.connections[1]) :
                  self.connections[1][i] # <<output, input_result>>
        THEN [self EXCEPT !.connections[1] = Append(@, <<output, input_result>>)]
        ELSE [self EXCEPT !.connections = Some(<<<<output, input_result>>>>)]

\* Entity::add_connection
Entity_add_connection(self, output, target_entity, input, parms, delay, fire_limit) ==
    LET input_result ==
            target_entity \o ESC \o input \o ESC \o parms \o ESC
            \o F32ToString(delay) \o ESC \o IntToString(fire_limit)
    IN  IF IsSome(self.connections)
        THEN [self EXCEPT !.connections[1] = Append(@, <<output, input_result>>)]
        ELSE [self EXCEPT !.connections = Some(<<<<output, input_result>>>>)]

\* Entity::clear_connections
Entity_clear_connections(self) == [self EXCEPT !.connections = None]

\* Entity::has_connection
Entity_has_connection(self, output, input) ==
    IF IsSome(self.connections)
    THEN \E k \in 1..Len(self.connections[1]) :
            /\ self.connections[1][k][1] = output
            /\ self.connections[1][k][2] = input
    ELSE FALSE

\* Entity::id
Entity_id(self) ==
    LET text == KvGet(self.key_values, "id")
    IN  IF IsSome(text) /\ IsSome(ParseInt(text[1], U64))
        THEN ParseInt(text[1], U64)[1]
        ELSE 0

\* position of the first element of a sequence that satisfies a test, 0
\* without one
Position(v, Test(_)) ==
    IF \E i \in 1..Len(v) : Test(v[i])
    THEN CHOOSE i \in 1..Len(v) :
            Test(v[i]) /\ \A j \in 1..(i - 1) : ~Test(v[j])
    ELSE 0

\* Vec::remove
VecRemove(v, i) == SubSeq(v, 1, i - 1) \o SubSeq(v, i + 1, Len(v))

\* the collection after the removal at the position, and the value returned
RemoveAt(self, index) ==
    IF index # 0
    THEN [self |-> VecRemove(self, index), ret |-> Some(self[index])]
    ELSE [self |-> self, ret |-> None]

\* Entities::remove_entity: the collection after the call and the value
\* returned
Entities_remove_entity(self, entity_id) ==
    RemoveAt(self,
             Position(self, LAMBDA e : KvGet(e.key_values, "id")
                                            = Some(IntToString(entity_id))))

\* VisGroups::find_by_id: the recursive search of the tree for the first
\* group of an id, a group before its children and these before its
\* later siblings
RECURSIVE VisGroup_find_in(_, _)
VisGroup_find_in(groups, id) ==
    IF groups = <<>> THEN None
    ELSE LET group == Head(groups)
             below == IF IsSome(group.children)
                      THEN VisGroup_find_in(group.children[1], id) ELSE None
         IN  IF group.id = id THEN Some(group)
             ELSE IF IsSome(below) THEN below
             ELSE VisGroup_find_in(Tail(groups), id)

VisGroups_find_by_id(self, id) == VisGroup_find_in(self.groups, id)

\* collect_child_visgroup_ids(group, &mut collected_ids): the set after the
\* call; a group whose id is already in the set returns at once
RECURSIVE collect_child_visgroup_ids(_, _)
RECURSIVE collect_children(_, _)
collect_children(children, collected_ids) ==
    IF children = <<>> THEN collected_ids
    ELSE collect_children(Tail(children),
             collect_child_visgroup_ids(Head(children), collected_ids))

collect_child_visgroup_ids(group, collected_ids) ==
    IF group.id \in collected_ids THEN collected_ids
    ELSE IF IsSome(group.children)
    THEN collect_children(group.children[1], collected_ids \cup {group.id})
    ELSE collected_ids \cup {group.id}

\* the HashSet ids_to_check of the four visgroup queries
ids_to_check(start_group, include_children) ==
    IF include_children THEN collect_child_visgroup_ids(start_group, {})
    ELSE {start_group.id}

\* the filter of the queries over a chain of two lists
FilterByVisgroup(items, ids) ==
    SelectSeq(items, LAMBDA item : /\ IsSome(item.editor.visgroup_id)
                                   /\ item.editor.visgroup_id[1] \in ids)

get_entities_in_visgroup(self, group_id, include_children) ==
    LET start_group == VisGroups_find_by_id(self.visgroups, group_id)
    IN  IF ~IsSome(start_group) THEN None
        ELSE Some(FilterByVisgroup(self.entities \o self.hiddens,
                      ids_to_check(start_group[1], include_children)))

get_solids_in_visgroup(self, group_id, include_children) ==
    LET start_group == VisGroups_find_by_id(self.visgroups, group_id)
    IN  IF ~IsSome(start_group) THEN None
        ELSE Some(FilterByVisgroup(self.world.solids \o self.world.hidden,
                      ids_to_check(start_group[1], include_children)))

\* From<Entity> for VmfBlock
Entity_into(val) ==
    VmfBlock("entity", val.key_values, <<Editor_into(val.editor)>>)

\* the connections block of Entity::to_vmf_string
Connections_to_vmf_string(connections, indent) ==
    <<indent \o "\tconnections", indent \o "\t{">>
    \o [i \in 1..Len(connections) |->
            indent \o "\t\t\"" \o connections[i][1] \o "\" \""
            \o connections[i][2] \o "\""]
    \o <<indent \o "\t}">>

Entity_to_vmf_string(val, indent_level) ==
    LET indent == Tabs(indent_level)
    IN  <<indent \o "entity", indent \o "{">>
        \o KvLines(indent, val.key_values)
        \o (IF IsSome(val.connections)
            THEN Connections_to_vmf_string(val.connections[1], indent)
            ELSE <<>>)
        \o (IF IsSome(val.solids)
            THEN Solids_to_vmf_string(val.solids[1], indent_level + 1)
            ELSE <<>>)
        \o Editor_to_vmf_string(val.editor, indent_level + 1)
        \o <<indent \o "}">>

\* ------------------------------------------------------------------------
\* VersionInfo, VisGroups, VisGroup, ViewSettings (vmf/metadata.rs)
\* ------------------------------------------------------------------------
\* get_key!(map, key)? and parse_hs_key!(map, key, T)? read the map without
\* parse_hs_key!(map, key, T): the key looked up and parsed
parse_hs_key(map, key, ty) ==
    ParseTaken(get_key_ref(map, key),
               ParseInt(ValueOf(get_key_ref(map, key)), ty),
               ParseIntError(key))

VersionInfo_default ==
    [editor_version |-> 0, editor_build |-> 0, map_version |-> 0,
     format_version |-> 0, prefab |-> FALSE]

\* the struct literal of VersionInfo::try_from, each ? in its order
VersionInfo_new(editor_version, editor_build, map_version, format_version, prefab) ==
    IF ~editor_version.ok THEN editor_version
    ELSE IF ~editor_build.ok THEN editor_build
    ELSE IF ~map_version.ok THEN map_version
    ELSE IF ~format_version.ok THEN format_version
    ELSE IF ~prefab.ok THEN prefab
    ELSE Ok([editor_version |-> editor_version.val,
             editor_build |-> editor_build.val,
             map_version |-> map_version.val,
             format_version |-> format_version.val,
             prefab |-> prefab.val = "1"])

VersionInfo_try_from(block) ==
    VersionInfo_new(parse_hs_key(block.key_values, "editorversion", I32),
                    parse_hs_key(block.key_values, "editorbuild", I32),
                    parse_hs_key(block.key_values, "mapversion", I32),
                    parse_hs_key(block.key_values, "formatversion", I32),
                    get_key_ref(block.key_values, "prefab"))

VersionInfo_key_values(val) ==
    <<<<"editorversion", IntToString(val.editor_version)>>,
      <<"editorbuild", IntToString(val.editor_build)>>,
      <<"mapversion", IntToString(val.map_version)>>,
      <<"formatversion", IntToString(val.format_version)>>,
      <<"prefab", To01String(val.prefab)>>>>

\* From<VersionInfo> for VmfBlock
VersionInfo_into(val) ==
    VmfBlock("versioninfo", VersionInfo_key_values(val), <<>>)

VersionInfo_to_vmf_string(val, indent_level) ==
    LET indent == Tabs(indent_level)
    IN  <<indent \o "versioninfo", indent \o "{",
          KvLine(indent, "editorversion", IntToString(val.editor_version)),
          KvLine(indent, "editorbuild", IntToString(val.editor_build)),
          KvLine(indent, "mapversion", IntToString(val.map_version)),
          KvLine(indent, "formatversion", IntToString(val.format_version)),
          KvLine(indent, "prefab", To01String(val.prefab)),
          indent \o "}">>

RECURSIVE VisGroup_try_from(_)
RECURSIVE VisGroup_collect(_)
\* blocks.into_iter().map(VisGroup::try_from).collect::<VmfResult<Vec<_>>>()
VisGroup_collect(blocks) ==
    Collect([i \in 1..Len(blocks) |-> VisGroup_try_from(blocks[i])])

\* the children and then the struct literal of VisGroup::try_from
VisGroup_new(children, name, id, color) ==
    IF ~children.ok THEN children
    ELSE IF ~name.ok THEN name
    ELSE IF ~id.ok THEN id
    ELSE IF ~color.ok THEN color
    ELSE Ok([name |-> name.val, id |-> id.val, color |-> color.val,
             children |-> children.val])

VisGroup_try_from(block) ==
    VisGroup_new(IF block.blocks = <<>> THEN Ok(None)
                 ELSE OkSome(VisGroup_collect(block.blocks)),
                 get_key_ref(block.key_values, "name"),
                 parse_hs_key(block.key_values, "visgroupid", I32),
                 get_key_ref(block.key_values, "color"))

VisGroups_default == [groups |-> <<>>]

VisGroups_new(groups) ==
    IF ~groups.ok THEN groups ELSE Ok([groups |-> groups.val])

VisGroups_try_from(block) == VisGroups_new(VisGroup_collect(block.blocks))

\* From<VisGroup> for VmfBlock
RECURSIVE VisGroup_into(_)
VisGroup_into(val) ==
    VmfBlock("visgroup",
        <<<<"name", val.name>>, <<"visgroupid", IntToString(val.id)>>,
          <<"color", val.color>>>>,
        IF IsSome(val.children)
        THEN [i \in 1..Len(val.children[1]) |->
                VisGroup_into(val.children[1][i])]
        ELSE <<>>)

\* From<VisGroups> for VmfBlock
VisGroups_into(val) ==
    VmfBlock("visgroups", <<>>,
             [i \in 1..Len(val.groups) |-> VisGroup_into(val.groups[i])])

RECURSIVE VisGroup_to_vmf_string(_, _)
RECURSIVE VisGroup_list_to_vmf_string(_, _)
VisGroup_to_vmf_string(val, indent_level) ==
    LET indent == Tabs(indent_level)
    IN  <<indent \o "\tvisgroup", "\t" \o indent \o "{",
          KvLine(indent \o "\t", "name", val.name),
          KvLine(indent \o "\t", "visgroupid", IntToString(val.id)),
          KvLine(indent \o "\t", "color", val.color)>>
        \o (IF IsSome(val.children)
            THEN VisGroup_list_to_vmf_string(val.children[1], indent_level + 1)
            ELSE <<>>)
        \o <<indent \o "\t}">>

VisGroup_list_to_vmf_string(groups, indent_level) ==
    IF groups = <<>> THEN <<>>
    ELSE VisGroup_to_vmf_string(groups[1], indent_level)
         \o VisGroup_list_to_vmf_string(Tail(groups), indent_level)

VisGroups_to_vmf_string(val, indent_level) ==
    LET indent == Tabs(indent_level)
    IN  <<indent \o "visgroups", indent \o "{">>
        \o VisGroup_list_to_vmf_string(val.groups, indent_level)
        \o <<indent \o "}">>

ViewSettings_default ==
    [snap_to_grid |-> TRUE, show_grid |-> TRUE, show_logical_grid |-> FALSE,
     grid_spacing |-> 8, show_3d_grid |-> FALSE]

\* the struct literal of ViewSettings::try_from, each ? in its order;
\* parsed is the nGridSpacing value .parse()d, used .unwrap_or(64)
ViewSettings_new(snap_to_grid, show_grid, show_logical_grid, grid_spacing, parsed, show_3d_grid) ==
    IF ~snap_to_grid.ok THEN snap_to_grid
    ELSE IF ~show_grid.ok THEN show_grid
    ELSE IF ~show_logical_grid.ok THEN show_logical_grid
    ELSE IF ~grid_spacing.ok THEN grid_spacing
    ELSE Ok([snap_to_grid |-> snap_to_grid.val = "1",
             show_grid |-> show_grid.val = "1",
             show_logical_grid |-> show_logical_grid.val = "1",
             grid_spacing |-> UnwrapOr(parsed, 64),
             show_3d_grid |-> show_3d_grid = "1"])

ViewSettings_try_from(block) ==
    ViewSettings_new(get_key_ref(block.key_values, "bSnapToGrid"),
                     get_key_ref(block.key_values, "bShowGrid"),
                     get_key_ref(block.key_values, "bShowLogicalGrid"),
                     get_key_ref(block.key_values, "nGridSpacing"),
                     ParseInt(ValueOf(get_key_ref(block.key_values,
                                                  "nGridSpacing")), U16),
                     UnwrapOr(KvGet(block.key_values, "bShow3DGrid"), "0"))

ViewSettings_key_values(val) ==
    <<<<"bSnapToGrid", To01String(val.snap_to_grid)>>,
      <<"bShowGrid", To01String(val.show_grid)>>,
      <<"bShowLogicalGrid", To01String(val.show_logical_grid)>>,
      <<"nGridSpacing", IntToString(val.grid_spacing)>>,
      <<"bShow3DGrid", To01String(val.show_3d_grid)>>>>

\* From<ViewSettings> for VmfBlock
ViewSettings_into(val) ==
    VmfBlock("viewsettings", ViewSettings_key_values(val), <<>>)

ViewSettings_to_vmf_string(val, indent_level) ==
    LET indent == Tabs(indent_level)
    IN  <<indent \o "viewsettings", indent \o "{",
          KvLine(indent, "bSnapToGrid", To01String(val.snap_to_grid)),
          KvLine(indent, "bShowGrid", To01String(val.show_grid)),
          KvLine(indent, "bShowLogicalGrid",
                 To01String(val.show_logical_grid)),
          KvLine(indent, "nGridSpacing", IntToString(val.grid_spacing)),
          KvLine(indent, "bShow3DGrid", To01String(val.show_3d_grid)),
          indent \o "}">>

\* ------------------------------------------------------------------------
\* Cameras, Camera, Cordons, Cordon (vmf/regions.rs)
\* ------------------------------------------------------------------------
Camera_new(position, look) ==
    IF ~position.ok THEN position
    ELSE IF ~look.ok THEN look
    ELSE Ok([position |-> position.val, look |-> look.val])

Camera_try_from(block) ==
    Camera_new(take_key_owned(block.key_values, "position"),
               take_key_owned(block.key_values, "look"))

\* From<Camera> for VmfBlock
Camera_into(val) ==
    VmfBlock("camera",
             <<<<"position", val.position>>, <<"look", val.look>>>>, <<>>)

\* the loop of Cameras::try_from over the child blocks
Cameras_loop(blocks) ==
    Collect([i \in 1..Len(blocks) |-> Camera_try_from(blocks[i])])

Cameras_default == [active |-> 0, cams |-> <<>>]

Cameras_new(cams, active) ==
    IF ~cams.ok THEN cams
    ELSE IF ~active.ok THEN active
    ELSE Ok([active |-> active.val, cams |-> cams.val])

Cameras_try_from(block) ==
    Cameras_new(Cameras_loop(block.blocks),
                take_and_parse_key(block.key_values, "activecamera", I8))

\* From<Cameras> for VmfBlock
Cameras_into(val) ==
    VmfBlock("cameras", <<<<"active", IntToString(val.active)>>>>,
             [i \in 1..Len(val.cams) |-> Camera_into(val.cams[i])])

\* the lines of a camera without a block around them
Camera_lines_flat(cam, indent) ==
    <<KvLine(indent, "position", cam.position),
      KvLine(indent, "look", cam.look)>>

\* the lines Cameras::to_vmf_string writes for one camera
Camera_lines(cam, indent) ==
    <<indent \o "\tcamera", indent \o "\t{",
      KvLine(indent \o "\t", "position", cam.position),
      KvLine(indent \o "\t", "look", cam.look),
      indent \o "\t}">>

RECURSIVE Cameras_lines(_, _)
Cameras_lines(cams, indent) ==
    IF cams = <<>> THEN <<>>
    ELSE Camera_lines(cams[1], indent) \o Cameras_lines(Tail(cams), indent)

Cameras_to_vmf_string(val, indent_level) ==
    LET indent == Tabs(indent_level)
    IN  <<indent \o "cameras", indent \o "{",
          KvLine(indent, "activecamera", IntToString(val.active))>>
        \o Cameras_lines(val.cams, indent)
        \o <<indent \o "}">>

\* the key of the first sub-block, whatever its name; None without sub-block
SubBlockKey(blocks, key) ==
    IF blocks = <<>> THEN None ELSE KvGet(blocks[1].key_values, key)

\* (min_string, max_string) from the cordon block itself alone
Cordon_bounds_direct(maybe_min, maybe_max, min_res, max_res) ==
    IF ~min_res.ok
    THEN Err(InvalidFormat(
            "Missing 'mins' key in Cordon block or its 'box' sub-block"))
    ELSE IF ~max_res.ok
    THEN Err(InvalidFormat(
            "Missing 'maxs' key in Cordon block or its 'box' sub-block"))
    ELSE Ok(<<min_res.val, max_res.val>>)

\* (min_string, max_string): from the first sub-block when it has both
\* keys, else from the cordon block itself
Cordon_bounds(maybe_min, maybe_max, min_res, max_res) ==
    IF IsSome(maybe_min) /\ IsSome(maybe_max)
    THEN Ok(<<maybe_min[1], maybe_max[1]>>)
    ELSE IF ~min_res.ok
    THEN Err(InvalidFormat(
            "Missing 'mins' key in Cordon block or its 'box' sub-block"))
    ELSE IF ~max_res.ok
    THEN Err(InvalidFormat(
            "Missing 'maxs' key in Cordon block or its 'box' sub-block"))
    ELSE Ok(<<min_res.val, max_res.val>>)

Cordon_new(bounds, name, active) ==
    IF ~bounds.ok THEN bounds
    ELSE IF ~name.ok THEN name
    ELSE IF ~active.ok THEN active
    ELSE Ok([name |-> name.val,
             active |-> active.val = "1",
             min |-> bounds.val[1],
             max |-> bounds.val[2]])

Cordon_try_from(block) ==
    Cordon_new(Cordon_bounds(SubBlockKey(block.blocks, "mins"),
                             SubBlockKey(block.blocks, "maxs"),
                             take_key_owned(block.key_values, "mins"),
                             take_key_owned(block.key_values, "maxs")),
               take_key_owned(block.key_values, "name"),
               get_key_ref(block.key_values, "active"))

\* From<Cordon> for VmfBlock
Cordon_into(val) ==
    VmfBlock("cordon",
        <<<<"name", val.name>>, <<"active", To01String(val.active)>>>>,
        <<VmfBlock("box", <<<<"mins", val.min>>, <<"maxs", val.max>>>>,
                   <<>>)>>)

Cordon_to_vmf_string(val, indent_level) ==
    LET indent == Tabs(indent_level)
    IN  <<indent \o "cordon", indent \o "{",
          KvLine(indent, "name", val.name),
          KvLine(indent, "active", To01String(val.active)),
          indent \o "\tbox", indent \o "\t{",
          KvLine(indent \o "\t", "mins", val.min),
          KvLine(indent \o "\t", "maxs", val.max),
          indent \o "\t}",
          indent \o "}">>

\* the loop of Cordons::try_from over the child blocks
Cordons_loop(blocks) ==
    Collect([i \in 1..Len(blocks) |-> Cordon_try_from(blocks[i])])

Cordons_default == [active |-> 0, cordons |-> <<>>]

Cordons_new(cordons, active) ==
    IF ~cordons.ok THEN cordons
    ELSE IF ~active.ok THEN active
    ELSE Ok([active |-> active.val, cordons |-> cordons.val])

Cordons_try_from(block) ==
    Cordons_new(Cordons_loop(block.blocks),
                take_and_parse_key(block.key_values, "active", I8))

\* From<Cordons> for VmfBlock
Cordons_into(val) ==
    VmfBlock("cordons", <<<<"active", IntToString(val.active)>>>>,
             [i \in 1..Len(val.cordons) |-> Cordon_into(val.cordons[i])])

RECURSIVE Cordon_list_to_vmf_string(_, _)
Cordon_list_to_vmf_string(cordons, indent_level) ==
    IF cordons = <<>> THEN <<>>
    ELSE Cordon_to_vmf_string(cordons[1], indent_level)
         \o Cordon_list_to_vmf_string(Tail(cordons), indent_level)

Cordons_to_vmf_string(val, indent_level) ==
    LET indent == Tabs(indent_level)
    IN  <<indent \o "cordons", indent \o "{",
          KvLine(indent, "active", IntToString(val.active))>>
        \o Cordon_list_to_vmf_string(val.cordons, indent_level + 1)
        \o <<indent \o "}">>

\* ------------------------------------------------------------------------
\* The grammar (vmf.pest): text -> pairs.
\*   file := block*      block := identifier "{" (key_value | block)* "}"
\*   key_value := quoted_string quoted_string
\* White space separates tokens.  A pair of rule block is
\* [name, items]; an item is [rule |-> "key_value", key, value], key and
\* value with their quotes, or [rule |-> "block", block].
\* ------------------------------------------------------------------------
IsSpace(c) == c \in {" ", "\t", "\r", "\n"}

\* first position j >= i of s where the character is in cs, 0 if none
NextIn(s, i, cs) ==
    IF \E j \in i..Len(s) : CharAt(s, j) \in cs
    THEN CHOOSE j \in i..Len(s) :
            /\ CharAt(s, j) \in cs
            /\ \A k \in i..(j - 1) : CharAt(s, k) \notin cs
    ELSE 0

\* the tokens of one line from position i on
RECURSIVE LexLine(_, _)
LexLine(s, i) ==
    IF i > Len(s) THEN [ok |-> TRUE, toks |-> <<>>]
    ELSE LET c == CharAt(s, i)
         IN  IF IsSpace(c) THEN LexLine(s, i + 1)
             ELSE IF c \in {"{", "}"}
             THEN LET r == LexLine(s, i + 1)
                  IN  [r EXCEPT !.toks = <<c>> \o @]
             ELSE IF c = "\""
             THEN LET j == NextIn(s, i + 1, {"\""})
                      r == LexLine(s, j + 1)
                  IN  IF j = 0 THEN [ok |-> FALSE, toks |-> <<>>]
                      ELSE [r EXCEPT !.toks = <<SubSeq(s, i, j)>> \o @]
             ELSE LET e == NextIn(s, i, {" ", "\t", "\r", "\n", "{", "}", "\""})
                      j == IF e = 0 THEN Len(s) + 1 ELSE e
                      r == LexLine(s, j)
                  IN  [r EXCEPT !.toks = <<SubSeq(s, i, j - 1)>> \o @]

\* the tokens of all lines (the lines are split in halves to keep the
\* evaluation shallow)
RECURSIVE Lex(_)
Lex(text) ==
    IF text = <<>> THEN [ok |-> TRUE, toks |-> <<>>]
    ELSE IF Len(text) = 1 THEN LexLine(text[1], 1)
    ELSE LET h == Len(text) \div 2
             l == Lex(SubSeq(text, 1, h))
             r == Lex(SubSeq(text, h + 1, Len(text)))
         IN  IF ~l.ok THEN l
             ELSE IF ~r.ok THEN r
             ELSE [ok |-> TRUE, toks |-> l.toks \o r.toks]

IsQuoted(t) == CharAt(t, 1) = "\""

IsIdentifier(t) == ~IsQuoted(t) /\ t \notin {"{", "}"}

GrammarFail == [ok |-> FALSE, items |-> <<>>, rest |-> <<>>]

\* the items of a block up to its closing brace, and the tokens after it
RECURSIVE GrammarItems(_)
GrammarItems(toks) ==
    IF toks = <<>> THEN GrammarFail
    ELSE IF toks[1] = "}"
    THEN [ok |-> TRUE, items |-> <<>>, rest |-> Tail(toks)]
    ELSE IF Len(toks) < 2 THEN GrammarFail
    ELSE IF IsQuoted(toks[1]) /\ IsQuoted(toks[2])
    THEN LET r == GrammarItems(Tail(Tail(toks)))
         IN  IF ~r.ok THEN r
             ELSE [r EXCEPT !.items =
                    <<[rule |-> "key_value", key |-> toks[1],
                       value |-> toks[2]]>> \o @]
    ELSE IF IsIdentifier(toks[1]) /\ toks[2] = "{"
    THEN LET b == GrammarItems(Tail(Tail(toks)))
             r == GrammarItems(b.rest)
         IN  IF ~b.ok THEN b
             ELSE IF ~r.ok THEN r
             ELSE [r EXCEPT !.items =
                    <<[rule |-> "block",
                       block |-> [name |-> toks[1], items |-> b.items]]>>
                    \o @]
    ELSE GrammarFail

\* the top-level blocks of a token sequence
RECURSIVE GrammarFile(_)
GrammarFile(toks) ==
    IF toks = <<>> THEN [ok |-> TRUE, items |-> <<>>, rest |-> <<>>]
    ELSE IF Len(toks) >= 2 /\ IsIdentifier(toks[1]) /\ toks[2] = "{"
    THEN LET b == GrammarItems(Tail(Tail(toks)))
             r == GrammarFile(b.rest)
         IN  IF ~b.ok THEN b
             ELSE IF ~r.ok THEN r
             ELSE [r EXCEPT !.items =
                    <<[name |-> toks[1], items |-> b.items]>> \o @]
    ELSE GrammarFail

\* VmfParser::parse(Rule::file, input): the top-level pairs or Err(Parse)
VmfParser_parse(input) ==
    LET l == Lex(input)
        f == GrammarFile(l.toks)
    IN  IF ~l.ok \/ ~f.ok THEN Err(ParseError) ELSE Ok(f.items)

\* ------------------------------------------------------------------------
\* parser.rs
\* ------------------------------------------------------------------------
strip_quotes(s) ==
    IF Len(s) >= 1 /\ CharAt(s, 1) = "\"" /\ CharAt(s, Len(s)) = "\""
    THEN SubSeq(s, 2, Len(s) - 1)
    ELSE s

\* an entry that keeps only the value that arrived last
EntryOverwrite(key_values, key, value) == KvInsert(key_values, key, value)

\* key_values.entry(key).and_modify(push '\r', push_str(value))
\*                      .or_insert(value)
EntryMerge(key_values, key, value) ==
    LET i == KvIndex(key_values, key)
    IN  IF i = 0 THEN Append(key_values, <<key, value>>)
        ELSE [key_values EXCEPT ![i] = <<key, @[2] \o "\r" \o value>>]

RECURSIVE parse_block(_)
RECURSIVE parse_block_loop(_, _, _)
parse_block_loop(items, key_values, blocks) ==
    IF items = <<>> THEN <<key_values, blocks>>
    ELSE LET item == items[1]
         IN  IF item.rule = "key_value"
             THEN parse_block_loop(Tail(items),
                    EntryMerge(key_values, strip_quotes(item.key),
                               strip_quotes(item.value)),
                    blocks)
             ELSE parse_block_loop(Tail(items), key_values,
                    Append(blocks, parse_block(item.block)))

parse_block(pair) ==
    LET r == parse_block_loop(pair.items, <<>>, <<>>)
    IN  VmfBlock(pair.name, r[1], r[2])

\* ------------------------------------------------------------------------
\* VmfFile (vmf_file/mod.rs, vmf_file/merge.rs) and parse_vmf (parser.rs)
\* ------------------------------------------------------------------------
VmfFile_default ==
    [path |-> None,
     versioninfo |-> VersionInfo_default,
     visgroups |-> VisGroups_default,
     viewsettings |-> ViewSettings_default,
     world |-> World_default,
     entities |-> <<>>,
     hiddens |-> <<>>,
     cameras |-> Cameras_default,
     cordons |-> Cordons_default]

\* a loop that keeps the first occurrence of a singleton block
SetFieldKeep(vmf_file, field, r) ==
    IF ~r.ok THEN r
    ELSE IF vmf_file[field] # VmfFile_default[field] THEN Ok(vmf_file)
    ELSE Ok([vmf_file EXCEPT ![field] = r.val])

\* the field assignments of the singleton arms
SetField(vmf_file, field, r) ==
    IF ~r.ok THEN r ELSE Ok([vmf_file EXCEPT ![field] = r.val])

\* a hidden arm that pushes the entity as converted
PushHiddenUnflagged(vmf_file, ent) ==
    IF ~ent.ok THEN ent
    ELSE Ok([vmf_file EXCEPT !.hiddens = Append(@, ent.val)])

\* vmf_file.hiddens.push(ent) after ent.is_hidden = true
PushHidden(vmf_file, ent) ==
    IF ~ent.ok THEN ent
    ELSE Ok([vmf_file EXCEPT !.hiddens =
                Append(@, [ent.val EXCEPT !.is_hidden = TRUE])])

\* the "hidden" arm of parse_vmf: the first child block, as an Entity
parse_vmf_hidden(vmf_file, block) ==
    IF block.blocks # <<>>
    THEN PushHidden(vmf_file, Entity_try_from(block.blocks[1]))
    ELSE Ok(vmf_file)

\* vmf_file.entities.push(Entity::try_from(block)?)
PushEntity(vmf_file, ent) ==
    IF ~ent.ok THEN ent
    ELSE Ok([vmf_file EXCEPT !.entities = Append(@, ent.val)])

\* the "entity" arm of parse_vmf
parse_vmf_entity(vmf_file, block) ==
    PushEntity(vmf_file, Entity_try_from(block))

\* the "cordons" arm of parse_vmf
parse_vmf_cordons(vmf_file, block) ==
    SetField(vmf_file, "cordons", Cordons_try_from(block))

\* vmf_file.cordons.cordons.push(Cordon::try_from(block)?)
PushCordon(vmf_file, c) ==
    IF ~c.ok THEN c
    ELSE Ok([vmf_file EXCEPT !.cordons.cordons = Append(@, c.val)])

\* the "cordon" arm of parse_vmf
parse_vmf_cordon(vmf_file, block) ==
    PushCordon(vmf_file, Cordon_try_from(block))

\* an arm that takes a block of any other name for an entity
parse_vmf_other_entity(vmf_file, block) == parse_vmf_entity(vmf_file, block)

\* the arm for any other name
parse_vmf_other(vmf_file, block) == Ok(vmf_file)

\* the match of parse_vmf on the lower-cased block name
parse_vmf_arm(name, vmf_file, block) ==
    CASE name = "versioninfo" ->
            SetField(vmf_file, "versioninfo", VersionInfo_try_from(block))
      [] name = "visgroups" ->
            SetField(vmf_file, "visgroups", VisGroups_try_from(block))
      [] name = "viewsettings" ->
            SetField(vmf_file, "viewsettings", ViewSettings_try_from(block))
      [] name = "world" ->
            SetField(vmf_file, "world", World_try_from(block))
      [] name = "entity" -> parse_vmf_entity(vmf_file, block)
      [] name = "hidden" -> parse_vmf_hidden(vmf_file, block)
      [] name = "cameras" ->
            SetField(vmf_file, "cameras", Cameras_try_from(block))
      [] name = "cordons" -> parse_vmf_cordons(vmf_file, block)
      [] name = "cordon" -> parse_vmf_cordon(vmf_file, block)
      [] OTHER -> parse_vmf_other(vmf_file, block)

parse_vmf_match(vmf_file, block) ==
    parse_vmf_arm(ToLower(block.name), vmf_file, block)

\* the loop of parse_vmf over the top-level pairs
RECURSIVE parse_vmf_loop(_, _)
RECURSIVE parse_vmf_next(_, _)
parse_vmf_loop(pairs, vmf_file) ==
    IF pairs = <<>> THEN Ok(vmf_file)
    ELSE parse_vmf_next(pairs, parse_vmf_match(vmf_file, parse_block(pairs[1])))

\* the ? of each arm: the first error ends the loop
parse_vmf_next(pairs, r) ==
    IF ~r.ok THEN r ELSE parse_vmf_loop(Tail(pairs), r.val)

\* a parse that answers a grammar error with an empty document
parse_vmf_pairs_lenient(parsed) ==
    IF ~parsed.ok THEN Ok(VmfFile_default)
    ELSE parse_vmf_loop(parsed.val, VmfFile_default)

\* the pairs of VmfParser::parse(Rule::file, input), or its error
parse_vmf_pairs(parsed) ==
    IF ~parsed.ok THEN parsed ELSE parse_vmf_loop(parsed.val, VmfFile_default)

parse_vmf(input) == parse_vmf_pairs(VmfParser_parse(input))

\* a merge that skips the entities of other already in self
merge_dedup(self, other) ==
    [self EXCEPT
        !.visgroups.groups = @ \o other.visgroups.groups,
        !.world.solids = @ \o other.world.solids,
        !.world.hidden = @ \o other.world.hidden,
        !.entities = @ \o SelectSeq(other.entities,
                        LAMBDA e : \A i \in 1..Len(self.entities) :
                                      self.entities[i] # e),
        !.hiddens = @ \o other.hiddens,
        !.cordons.cordons = @ \o other.cordons.cordons]

\* a merge that also takes the cameras and the active cordon of other
merge_regions(self, other) ==
    [self EXCEPT
        !.visgroups.groups = @ \o other.visgroups.groups,
        !.world.solids = @ \o other.world.solids,
        !.world.hidden = @ \o other.world.hidden,
        !.entities = @ \o other.entities,
        !.hiddens = @ \o other.hiddens,
        !.cameras = other.cameras,
        !.cordons = [active |-> other.cordons.active,
                     cordons |-> @.cordons \o other.cordons.cordons]]

\* a merge that puts the cordons of other in the place of those of self
merge_replace_cordons(self, other) ==
    [self EXCEPT
        !.visgroups.groups = @ \o other.visgroups.groups,
        !.world.solids = @ \o other.world.solids,
        !.world.hidden = @ \o other.world.hidden,
        !.entities = @ \o other.entities,
        !.hiddens = @ \o other.hiddens,
        !.cordons.cordons = other.cordons.cordons]

\* VmfFile::merge: self after self.merge(other)
merge(self, other) ==
    [self EXCEPT
        !.visgroups.groups = @ \o other.visgroups.groups,
        !.world.solids = @ \o other.world.solids,
        !.world.hidden = @ \o other.world.hidden,
        !.entities = @ \o other.entities,
        !.hiddens = @ \o other.hiddens,
        !.cordons.cordons = @ \o other.cordons.cordons]

RECURSIVE Entities_to_vmf_string(_)
Entities_to_vmf_string(entities) ==
    IF entities = <<>> THEN <<>>
    ELSE Entity_to_vmf_string(entities[1], 0)
         \o Entities_to_vmf_string(Tail(entities))

RECURSIVE Hiddens_to_vmf_string(_)
Hiddens_to_vmf_string(hiddens) ==
    IF hiddens = <<>> THEN <<>>
    ELSE <<"hidden", "{">> \o Entity_to_vmf_string(hiddens[1], 1) \o <<"}">>
         \o Hiddens_to_vmf_string(Tail(hiddens))

\* VmfFile::to_vmf_string
to_vmf_string(self) ==
    VersionInfo_to_vmf_string(self.versioninfo, 0)
    \o VisGroups_to_vmf_string(self.visgroups, 0)
    \o ViewSettings_to_vmf_string(self.viewsettings, 0)
    \o World_to_vmf_string(self.world, 0)
    \o Entities_to_vmf_string(self.entities)
    \o Hiddens_to_vmf_string(self.hiddens)
    \o Cameras_to_vmf_string(self.cameras, 0)
    \o Cordons_to_vmf_string(self.cordons, 0)

\* ------------------------------------------------------------------------
\* Input files.  A file is a sequence of top-level blocks; a block is
\* [name, items] with the items in file order (key-values without their
\* quotes, and nested blocks).  FileText writes a file out as text, one
\* token group per line, tab indented.
\* ------------------------------------------------------------------------
KV(key, value) == [rule |-> "key_value", key |-> key, value |-> value]

BL(name, items) ==
    [rule |-> "block", block |-> [name |-> name, items |-> items]]

TOP(name, items) == [name |-> name, items |-> items]

\* a line of a block written as it stands, to build malformed text
RAW(text) == [rule |-> "raw", text |-> text]

RECURSIVE BlockText(_, _)
RECURSIVE ItemsText(_, _)
BlockText(block, level) ==
    <<Tabs(level) \o block.name, Tabs(level) \o "{">>
    \o ItemsText(block.items, level)
    \o <<Tabs(level) \o "}">>

ItemsText(items, level) ==
    IF items = <<>> THEN <<>>
    ELSE (CASE items[1].rule = "key_value" ->
                    <<KvLine(Tabs(level), items[1].key, items[1].value)>>
            [] items[1].rule = "raw" ->
                    <<Tabs(level + 1) \o items[1].text>>
            [] OTHER -> BlockText(items[1].block, level + 1))
         \o ItemsText(Tail(items), level)

RECURSIVE FileText(_)
FileText(file) ==
    IF file = <<>> THEN <<>>
    ELSE BlockText(file[1], 0) \o FileText(Tail(file))

\* what the grammar makes of a block of a file: the tokens keep their quotes
RECURSIVE QuotedItems(_)
QuotedItems(items) ==
    [i \in 1..Len(items) |->
        IF items[i].rule = "key_value"
        THEN KV("\"" \o items[i].key \o "\"", "\"" \o items[i].value \o "\"")
        ELSE BL(items[i].block.name, QuotedItems(items[i].block.items))]

\* the VmfBlock parse_block builds for a block of a file
BlockOf(top) == parse_block([name |-> top.name, items |-> QuotedItems(top.items)])

EditorItems(visgroupid) ==
    BL("editor", <<KV("color", "0 180 0")>>
                 \o (IF visgroupid = "" THEN <<>>
                     ELSE <<KV("visgroupid", visgroupid)>>)
                 \o <<KV("visgroupshown", "1"), KV("visgroupautoshown", "0")>>)

RowsItems(name, rows) ==
    BL(name, [i \in 1..Len(rows) |-> KV(RowKey(i - 1), rows[i])])

DispInfoItems ==
    BL("dispinfo",
       <<KV("power", "2"), KV("startposition", "[0 0 0]"), KV("flags", "1"),
         KV("elevation", "0.50"), KV("subdiv", "1"),
         RowsItems("normals", <<"0 0 1">>),
         RowsItems("distances", <<"8">>),
         RowsItems("offsets", <<"0 0 0">>),
         RowsItems("offset_normals", <<"0 0 1">>),
         RowsItems("alphas", <<"0">>),
         RowsItems("triangle_tags", <<"9">>),
         BL("allowed_verts", <<KV("10", "-1 -1 -1")>>)>>)

SideItems(id, rotation, disp) ==
    BL("side",
       <<KV("id", id), KV("plane", "(0 0 0) (1 0 0) (0 1 0)"),
         KV("material", "DEV/GRID"), KV("uaxis", "[1 0 0 0] 0.25"),
         KV("vaxis", "[0 -1 0 0] 0.25")>>
       \o (IF rotation = "" THEN <<>> ELSE <<KV("rotation", rotation)>>)
       \o <<KV("lightmapscale", "16"), KV("smoothing_groups", "0")>>
       \o disp)

SolidItems(id, sides) ==
    BL("solid", <<KV("id", id)>> \o sides \o <<EditorItems("")>>)

VersionInfoA ==
    TOP("versioninfo",
        <<KV("editorversion", "400"), KV("editorbuild", "8000"),
          KV("mapversion", "1"), KV("formatversion", "100"),
          KV("prefab", "0")>>)

VersionInfoB ==
    TOP("versioninfo",
        <<KV("editorversion", "400"), KV("editorbuild", "9672"),
          KV("mapversion", "2"), KV("formatversion", "100"),
          KV("prefab", "1")>>)

VersionInfoBad ==
    TOP("versioninfo",
        <<KV("editorversion", "abc"), KV("editorbuild", "8000"),
          KV("mapversion", "1"), KV("formatversion", "100"),
          KV("prefab", "0")>>)

VisGroupsA ==
    TOP("visgroups",
        <<BL("visgroup",
             <<KV("name", "walls"), KV("visgroupid", "1"),
               KV("color", "65 45 0"),
               BL("visgroup",
                  <<KV("name", "inner"), KV("visgroupid", "2"),
                    KV("color", "60 35 0")>>)>>)>>)

ViewSettingsA ==
    TOP("viewsettings",
        <<KV("bSnapToGrid", "1"), KV("bShowGrid", "0"),
          KV("bShowLogicalGrid", "0"), KV("nGridSpacing", "64"),
          KV("bShow3DGrid", "1")>>)

\* a world with a displacement side, without hidden solids
WorldA ==
    TOP("world",
        <<KV("id", "1"), KV("classname", "worldspawn"),
          SolidItems("2", <<SideItems("3", "30", <<DispInfoItems>>)>>),
          BL("group", <<KV("id", "7"), EditorItems("")>>)>>)

\* a world with two hidden solids
WorldB ==
    TOP("world",
        <<KV("id", "1"), KV("classname", "worldspawn"),
          SolidItems("4", <<>>),
          BL("hidden", <<SolidItems("5", <<>>)>>),
          BL("hidden", <<SolidItems("6", <<SideItems("8", "", <<>>)>>)>>)>>)

\* rows given with their indices, in the order they are written
RowsAt(name, entries) ==
    BL(name, [i \in 1..Len(entries) |->
                KV(RowKey(entries[i][1]), entries[i][2])])

\* a dispinfo with rows left out and rows out of order
DispInfoSparse ==
    BL("dispinfo",
       <<KV("power", "2"), KV("startposition", "[0 0 0]"), KV("flags", "1"),
         KV("elevation", "0.50"), KV("subdiv", "1"),
         RowsAt("normals", <<<<0, "0 0 1">>, <<3, "1 0 0">>>>),
         RowsAt("distances", <<<<3, "8">>, <<0, "4">>>>),
         RowsAt("offsets", <<<<1, "0 0 0">>>>),
         RowsAt("alphas", <<<<2, "7">>, <<1, "6">>, <<0, "5">>>>),
         RowsAt("triangle_tags", <<>>),
         BL("allowed_verts", <<KV("10", "-1 -1 -1")>>)>>)

\* a world whose solid has every optional numeric key of a side, a dispinfo
\* and an editor
WorldOpt ==
    TOP("world",
        <<KV("id", "1"), KV("classname", "worldspawn"),
          BL("solid",
             <<KV("id", "9"),
               BL("side",
                  <<KV("id", "10"), KV("plane", "(0 0 0) (1 0 0) (0 1 0)"),
                    KV("material", "DEV/GRID"), KV("uaxis", "[1 0 0 0] 0.25"),
                    KV("vaxis", "[0 -1 0 0] 0.25"), KV("rotation", "15"),
                    KV("flags", "2"), KV("lightmapscale", "16"),
                    KV("smoothing_groups", "0"), DispInfoSparse>>),
               BL("editor",
                  <<KV("color", "0 180 0"), KV("visgroupid", "3"),
                    KV("groupid", "4"), KV("visgroupshown", "1"),
                    KV("visgroupautoshown", "0")>>)>>)>>)

\* a brush entity with interleaved connections and a hidden solid
EntityA ==
    TOP("entity",
        <<KV("id", "20"), KV("classname", "func_button"),
          BL("connections",
             <<KV("OnPressed", "door,Open,,0,-1"),
               KV("OnDamaged", "relay,Trigger,,0,-1"),
               KV("OnPressed", "lamp,TurnOn,,1,-1")>>),
          SolidItems("21", <<>>),
          BL("hidden", <<SolidItems("22", <<>>)>>),
          EditorItems("1")>>)

\* a point entity with adjacent equal outputs, named in upper case
EntityB ==
    TOP("Entity",
        <<KV("id", "30"), KV("classname", "logic_relay"),
          BL("connections",
             <<KV("OnTrigger", "door,Open,,0,-1"),
               KV("OnTrigger", "door,Close,,2,-1")>>)>>)

HiddenA ==
    TOP("hidden",
        <<BL("entity",
             <<KV("id", "40"), KV("classname", "info_target"),
               EditorItems("2")>>),
          BL("entity", <<KV("id", "41"), KV("classname", "ignored")>>)>>)

HiddenEmpty == TOP("hidden", <<>>)

CamerasA ==
    TOP("cameras",
        <<KV("activecamera", "0"),
          BL("camera", <<KV("position", "[0 0 0]"), KV("look", "[1 0 0]")>>)>>)

CordonsA ==
    TOP("cordons",
        <<KV("active", "1"),
          BL("cordon",
             <<KV("name", "cordon_1"), KV("active", "1"),
               BL("box", <<KV("mins", "(-64 -64 -64)"),
                           KV("maxs", "(64 64 64)")>>)>>)>>)

\* the legacy top-level form, bounds as direct keys
CordonLegacy ==
    TOP("cordon",
        <<KV("name", "old"), KV("active", "0"),
          KV("mins", "(0 0 0)"), KV("maxs", "(8 8 8)")>>)

\* a world and an entity with a hidden block of two solids, an empty hidden
\* block and solids around them
WorldHid ==
    TOP("world",
        <<KV("id", "1"), KV("classname", "worldspawn"),
          BL("hidden", <<SolidItems("60", <<>>), SolidItems("61", <<>>)>>),
          SolidItems("62", <<>>),
          BL("hidden", <<>>),
          BL("hidden", <<SolidItems("63", <<>>)>>)>>)

EntityHid ==
    TOP("entity",
        <<KV("id", "70"), KV("classname", "func_detail"),
          BL("hidden", <<SolidItems("71", <<>>), SolidItems("72", <<>>)>>),
          SolidItems("73", <<>>),
          BL("hidden", <<>>),
          BL("hidden", <<SolidItems("74", <<>>)>>)>>)

\* a cordon with its own bounds whose first sub-block, not named box, has
\* other bounds
CordonOdd ==
    TOP("cordon",
        <<KV("name", "odd"), KV("active", "1"),
          KV("mins", "(1 1 1)"), KV("maxs", "(2 2 2)"),
          BL("bounds", <<KV("mins", "(0 0 0)"), KV("maxs", "(9 9 9)")>>)>>)

\* a cordon with its own bounds whose box has mins alone
CordonPartial ==
    TOP("cordon",
        <<KV("name", "partial"), KV("active", "1"),
          KV("mins", "(1 1 1)"), KV("maxs", "(2 2 2)"),
          BL("box", <<KV("mins", "(0 0 0)")>>)>>)

UnknownA ==
    TOP("palette",
        <<KV("id", "1"),
          BL("entity", <<KV("id", "50")>>),
          BL("solid", <<>>)>>)

VisGroupsB ==
    TOP("visgroups",
        <<BL("visgroup",
             <<KV("name", "props"), KV("visgroupid", "3"),
               KV("color", "0 45 65")>>)>>)

ViewSettingsB ==
    TOP("viewsettings",
        <<KV("bSnapToGrid", "0"), KV("bShowGrid", "1"),
          KV("bShowLogicalGrid", "1"), KV("nGridSpacing", "16"),
          KV("bShow3DGrid", "0")>>)

CamerasB ==
    TOP("cameras",
        <<KV("activecamera", "-1"),
          BL("camera", <<KV("position", "[8 8 8]"), KV("look", "[0 1 0]")>>),
          BL("camera", <<KV("position", "[0 0 0]"), KV("look", "[1 0 0]")>>)>>)

\* the blocks of the files of the round-trip specification
TopBlocks ==
    {VersionInfoA, VersionInfoBad, VisGroupsA, ViewSettingsA,
     WorldA, WorldB, EntityA, EntityB, HiddenA, HiddenEmpty, CamerasA,
     CordonsA, CordonLegacy, UnknownA}

\* two different blocks of each singleton kind, and one that does not convert
SingletonBlocks ==
    {VersionInfoA, VersionInfoB, VersionInfoBad, VisGroupsA, VisGroupsB,
     ViewSettingsA, ViewSettingsB, WorldA, WorldB, CamerasA, CamerasB}

\* the blocks of the files that are merged into
MergeBlocks ==
    {VersionInfoA, VisGroupsA, WorldA, WorldB, EntityA, HiddenA, HiddenEmpty,
     CordonsA}

\* the files of at most n blocks drawn from a set of blocks
RECURSIVE FilesUpTo(_, _)
FilesUpTo(blocks, n) ==
    IF n = 0 THEN {<<>>}
    ELSE LET shorter == FilesUpTo(blocks, n - 1)
         IN  shorter \cup {Append(f, b) : f \in shorter, b \in blocks}

Files == FilesUpTo(TopBlocks, MaxBlocks)

\* the files whose documents are merged into another document; FileX has
\* the same ids as the blocks of MergeBlocks, FileY has other singletons
FileX == <<VersionInfoA, VisGroupsA, WorldB, EntityA, HiddenA, CordonsA>>

FileY ==
    <<VersionInfoB, ViewSettingsB, VisGroupsB, WorldA, EntityB, CamerasB,
      CordonLegacy>>

MergeFiles == {FileX, FileY}

\* ------------------------------------------------------------------------
\* The state machine: a caller parses a file, then either merges other
\* parsed documents into the document, or serializes it, parses the output
\* again and serializes once more.
\* ------------------------------------------------------------------------
VARIABLES
    file,       \* the input file
    pc,         \* "start", "parsed", "failed", "written", "reparsed", "rewritten"
    doc,        \* the result of VmfFile::parse(input); merge changes its val
    output,     \* doc.to_vmf_string()
    reparsed,   \* the result of VmfFile::parse(output)
    output2,    \* the to_vmf_string() of the reparsed document
    merges,     \* the number of merge calls made on doc
    before,     \* the document before the last merge call
    other,      \* the argument of the last merge call
    entity,     \* the entity a caller builds with the methods of Entity
    calls,      \* the method calls made so far, with their arguments
    ret         \* what the last method call returned

\* the state of a caller of the methods
api == <<entity, calls, ret>>

vars ==
    <<file, pc, doc, output, reparsed, output2, merges, before, other, entity,
      calls, ret>>

NoResult == Err(InvalidFormat("not run"))

\* the state before parse is called, whatever the file
NotStarted ==
    /\ pc = "start"
    /\ doc = NoResult
    /\ output = <<>>
    /\ reparsed = NoResult
    /\ output2 = <<>>
    /\ merges = 0
    /\ before = VmfFile_default
    /\ other = VmfFile_default
    /\ entity = Entity_default
    /\ calls = <<>>
    /\ ret = None

Init == file \in Files /\ NotStarted

\* VmfFile::parse(content)
Parse ==
    /\ pc = "start"
    /\ doc' = parse_vmf(FileText(file))
    /\ pc' = IF doc'.ok THEN "parsed" ELSE "failed"
    /\ UNCHANGED <<file, output, reparsed, output2, merges, before, other, api>>

\* doc.to_vmf_string()
Write ==
    /\ pc = "parsed"
    /\ output' = to_vmf_string(doc.val)
    /\ pc' = "written"
    /\ UNCHANGED <<file, doc, reparsed, output2, merges, before, other, api>>

\* VmfFile::parse(output)
Reparse ==
    /\ pc = "written"
    /\ reparsed' = parse_vmf(output)
    /\ pc' = "reparsed"
    /\ UNCHANGED <<file, doc, output, output2, merges, before, other, api>>

\* the to_vmf_string() of the reparsed document
Rewrite ==
    /\ pc = "reparsed"
    /\ reparsed.ok
    /\ output2' = to_vmf_string(reparsed.val)
    /\ pc' = "rewritten"
    /\ UNCHANGED <<file, doc, output, reparsed, merges, before, other, api>>

\* the documents of MergeFiles
MergeDocs == {parse_vmf(FileText(f)).val : f \in MergeFiles}

\* doc.merge(b), b the document of one of MergeFiles
Merge ==
    /\ pc = "parsed"
    /\ merges < MaxMerges
    /\ \E b \in MergeDocs :
          /\ before' = doc.val
          /\ other' = b
          /\ doc' = Ok(merge(doc.val, b))
    /\ merges' = merges + 1
    /\ UNCHANGED <<file, pc, output, reparsed, output2, api>>

Next == Parse \/ Write \/ Reparse \/ Rewrite

Spec == Init /\ [][Next]_vars

\* parsing alone, of files made of singleton blocks
SingletonFiles == FilesUpTo(SingletonBlocks, MaxBlocks)

InitSingleton == file \in SingletonFiles /\ NotStarted

NextSingleton == Parse

SpecSingleton == InitSingleton /\ [][NextSingleton]_vars

\* parsing and merging
MergedFiles == FilesUpTo(MergeBlocks, MaxBlocks)

InitMerge == file \in MergedFiles /\ NotStarted

NextMerge == Parse \/ Merge

SpecMerge == InitMerge /\ [][NextMerge]_vars

\* the lines that break the structure of a block: a closing brace too
\* many, an opening brace too many, the start of a block that is never
\* closed, a key without a value
RawLines ==
    {<<RAW("}")>>, <<RAW("{")>>, <<RAW("solid"), RAW("{")>>,
     <<RAW("\"key\"")>>}

\* the block with the lines put in after its first i items
InsertAt(top, i, lines) ==
    [top EXCEPT !.items = SubSeq(@, 1, i) \o lines \o SubSeq(@, i + 1, Len(@))]

Malformed(top) ==
    {InsertAt(top, i, lines) : i \in 0..Len(top.items), lines \in RawLines}

MalformedBlocks ==
    Malformed(VersionInfoA) \cup Malformed(CordonLegacy) \cup Malformed(HiddenA)

\* the well-formed blocks that stand before and after a malformed one
GoodBlocks == {VersionInfoA, EntityB}

\* well-formed files, and files with one malformed block
TextFiles ==
    FilesUpTo(GoodBlocks, MaxBlocks)
    \cup {pre \o <<m>> \o post :
            pre \in FilesUpTo(GoodBlocks, MaxBlocks - 1),
            post \in FilesUpTo(GoodBlocks, MaxBlocks - 1),
            m \in MalformedBlocks}

\* parsing alone, of well-formed and malformed text
InitText == file \in TextFiles /\ NotStarted

NextText == Parse

SpecText == InitText /\ [][NextText]_vars

\* the item sequences that differ from items by one change at any depth:
\* a key-value line left out, its value replaced by a word that is neither
\* a number nor "1", or the index of its row<N> key replaced by that word
NotANumber == "x"

RECURSIVE Variants(_)
Variants(items) ==
    UNION {
        IF items[i].rule = "key_value"
        THEN {SubSeq(items, 1, i - 1) \o SubSeq(items, i + 1, Len(items)),
              [items EXCEPT ![i].value = NotANumber]}
             \cup (IF IsSome(StripPrefix(items[i].key, "row"))
                   THEN {[items EXCEPT ![i].key = "row" \o NotANumber]}
                   ELSE {})
        ELSE {[items EXCEPT ![i].block.items = v] :
                v \in Variants(items[i].block.items)}
        : i \in 1..Len(items)}

VariantsOf(top) == {[top EXCEPT !.items = v] : v \in Variants(top.items)}

\* the blocks that are changed
BaseBlocks ==
    {VersionInfoA, VisGroupsA, ViewSettingsA, WorldA, WorldB, WorldOpt, EntityA,
     HiddenA, CamerasA, CordonsA, CordonLegacy, CordonOdd, CordonPartial,
     WorldHid, EntityHid}

VariantBlocks == BaseBlocks \cup UNION {VariantsOf(b) : b \in BaseBlocks}

\* a block of VariantBlocks after up to MaxBlocks - 1 versioninfo blocks
VariantFiles ==
    {pre \o <<b>> :
        pre \in FilesUpTo({VersionInfoA}, MaxBlocks - 1), b \in VariantBlocks}

\* parsing, writing and parsing again, of files with a changed block
InitVariant == file \in VariantFiles /\ NotStarted

NextVariant == Parse \/ Write \/ Reparse

SpecVariant == InitVariant /\ [][NextVariant]_vars

\* ------------------------------------------------------------------------
\* Properties
\* ------------------------------------------------------------------------

\* C1: for every document D that parse returns, parsing D.to_vmf_string()
\* succeeds and returns a document structurally equal to D.
C1_RoundTrip == pc = "reparsed" => reparsed = doc

\* C2: for every text T in the writer's own conventions (here the text the
\* writer produced), parse(T).to_vmf_string() is T, line for line.
C2_Canonical == pc = "rewritten" => output2 = output

MaxIndent == 1

RECURSIVE Concat(_)
Concat(seqs) == IF seqs = <<>> THEN <<>> ELSE seqs[1] \o Concat(Tail(seqs))

Tagged(type, vals) == {[type |-> type, val |-> vals[i]] : i \in 1..Len(vals)}

\* every value of a typed struct that a document holds, with its type
TypedValues(d) ==
    LET ents == d.entities \o d.hiddens
        solids == d.world.solids \o d.world.hidden
                  \o Concat([i \in 1..Len(ents) |-> Concat(ents[i].solids)])
        sides == Concat([i \in 1..Len(solids) |-> solids[i].sides])
        disps == Concat([i \in 1..Len(sides) |-> sides[i].dispinfo])
        groups == d.world.group
        editors == [i \in 1..Len(solids) |-> solids[i].editor]
                   \o [i \in 1..Len(ents) |-> ents[i].editor]
                   \o [i \in 1..Len(groups) |-> groups[i].editor]
    IN  Tagged("VersionInfo", <<d.versioninfo>>)
        \cup Tagged("VisGroups", <<d.visgroups>>)
        \cup Tagged("ViewSettings", <<d.viewsettings>>)
        \cup Tagged("World", <<d.world>>)
        \cup Tagged("Solid", solids)
        \cup Tagged("Side", sides)
        \cup Tagged("DispInfo", disps)
        \cup Tagged("Group", groups)
        \cup Tagged("Editor", editors)
        \cup Tagged("Entity", ents)
        \cup Tagged("Cameras", <<d.cameras>>)
        \cup Tagged("Cordons", <<d.cordons>>)
        \cup Tagged("Cordon", d.cordons.cordons)

\* t.to_vmf_string(n), by the type of t
DirectText(type, val, n) ==
    CASE type = "VersionInfo" -> VersionInfo_to_vmf_string(val, n)
      [] type = "VisGroups" -> VisGroups_to_vmf_string(val, n)
      [] type = "ViewSettings" -> ViewSettings_to_vmf_string(val, n)
      [] type = "World" -> World_to_vmf_string(val, n)
      [] type = "Solid" -> Solid_to_vmf_string(val, n)
      [] type = "Side" -> Side_to_vmf_string(val, n)
      [] type = "DispInfo" -> DispInfo_to_vmf_string(val, n)
      [] type = "Group" -> Group_to_vmf_string(val, n)
      [] type = "Editor" -> Editor_to_vmf_string(val, n)
      [] type = "Entity" -> Entity_to_vmf_string(val, n)
      [] type = "Cameras" -> Cameras_to_vmf_string(val, n)
      [] type = "Cordons" -> Cordons_to_vmf_string(val, n)
      [] type = "Cordon" -> Cordon_to_vmf_string(val, n)

\* VmfBlock::from(t), by the type of t
BlockFrom(type, val) ==
    CASE type = "VersionInfo" -> VersionInfo_into(val)
      [] type = "VisGroups" -> VisGroups_into(val)
      [] type = "ViewSettings" -> ViewSettings_into(val)
      [] type = "World" -> World_into(val)
      [] type = "Solid" -> Solid_into(val)
      [] type = "Side" -> Side_into(val)
      [] type = "DispInfo" -> DispInfo_into(val)
      [] type = "Group" -> Group_into(val)
      [] type = "Editor" -> Editor_into(val)
      [] type = "Entity" -> Entity_into(val)
      [] type = "Cameras" -> Cameras_into(val)
      [] type = "Cordons" -> Cordons_into(val)
      [] type = "Cordon" -> Cordon_into(val)

PathsAgree(t, n) ==
    DirectText(t.type, t.val, n) = serialize(BlockFrom(t.type, t.val), n)

\* C3: for every value t of every typed struct and every indent level n,
\* t.to_vmf_string(n) is the same text as VmfBlock::from(t).serialize(n).
C3_PathsAgree ==
    pc = "parsed" =>
        \A t \in TypedValues(doc.val) : \A n \in 0..MaxIndent : PathsAgree(t, n)

\* the top-level blocks of a file that parse_vmf matches with a name
TopsNamed(f, name) == SelectSeq(f, LAMBDA b : ToLower(b.name) = name)

\* the nested blocks of a block of a file, in file order
ChildTops(top) ==
    LET children == SelectSeq(top.items, LAMBDA it : it.rule = "block")
    IN  [i \in 1..Len(children) |-> children[i].block]

\* the key-value lines of the connections block of an entity block of a
\* file, in line order, as (output, input) pairs
ConnectionLines(top) ==
    LET blocks == SelectSeq(ChildTops(top), LAMBDA b : b.name = "connections")
        lines(b) == SelectSeq(b.items, LAMBDA it : it.rule = "key_value")
    IN  Concat([i \in 1..Len(blocks) |->
                  [j \in 1..Len(lines(blocks[i])) |->
                      <<lines(blocks[i])[j].key, lines(blocks[i])[j].value>>]])

ConnTuples(ent) ==
    IF IsSome(ent.connections) THEN ent.connections[1] ELSE <<>>

\* part occurs in text as consecutive lines
IsInfix(part, text) ==
    \E k \in 0..(Len(text) - Len(part)) :
        SubSeq(text, k + 1, k + Len(part)) = part

\* the connections block the writer should produce for the lines
ConnectionText(lines) ==
    <<"\tconnections", "\t{">>
    \o [i \in 1..Len(lines) |-> KvLine("\t", lines[i][1], lines[i][2])]
    \o <<"\t}">>

\* C4: an entity whose connections block has n key-value lines, whatever
\* the repetition and interleaving of the output names, parses to exactly n
\* tuples, one per line in the original line order, and is written with one
\* line per tuple in that order.
C4_LineOrder ==
    pc = "parsed" =>
        \A i \in 1..Len(doc.val.entities) :
            ConnectionLines(TopsNamed(file, "entity")[i]) # <<>> =>
                /\ ConnTuples(doc.val.entities[i])
                     = ConnectionLines(TopsNamed(file, "entity")[i])
                /\ IsInfix(
                     ConnectionText(
                        ConnectionLines(TopsNamed(file, "entity")[i])),
                     Entity_to_vmf_string(doc.val.entities[i], 0))

\* the last block of a file with a name, converted, or the default
LastOr(f, name, default, Conv(_)) ==
    IF TopsNamed(f, name) = <<>> THEN default
    ELSE Conv(BlockOf(TopsNamed(f, name)[Len(TopsNamed(f, name))])).val

\* C5: each of versioninfo, visgroups, viewsettings, world and cameras
\* holds the conversion of the last block of that name in the file and
\* nothing of an earlier one, and the default value when there is none.
C5_LastWins ==
    pc = "parsed" =>
        /\ doc.val.versioninfo
             = LastOr(file, "versioninfo", VersionInfo_default,
                      VersionInfo_try_from)
        /\ doc.val.visgroups
             = LastOr(file, "visgroups", VisGroups_default, VisGroups_try_from)
        /\ doc.val.viewsettings
             = LastOr(file, "viewsettings", ViewSettings_default,
                      ViewSettings_try_from)
        /\ doc.val.world = LastOr(file, "world", World_default, World_try_from)
        /\ doc.val.cameras
             = LastOr(file, "cameras", Cameras_default, Cameras_try_from)

\* a singleton block occurs twice with different contents and was parsed
C5_Witness ==
    /\ pc = "parsed"
    /\ Len(file) = 2
    /\ file[1].name = file[2].name
    /\ file[1] # file[2]
    /\ doc.val # VmfFile_default

\* the entities of the top-level entity blocks, in file order
ExpectedEntities(f) ==
    [i \in 1..Len(TopsNamed(f, "entity")) |->
        Entity_try_from(BlockOf(TopsNamed(f, "entity")[i])).val]

\* the top-level hidden blocks that have a child
HiddenTops(f) ==
    SelectSeq(TopsNamed(f, "hidden"), LAMBDA b : ChildTops(b) # <<>>)

\* the first children of the hidden blocks, as hidden entities
ExpectedHiddens(f) ==
    [i \in 1..Len(HiddenTops(f)) |->
        [Entity_try_from(BlockOf(ChildTops(HiddenTops(f)[i])[1])).val
            EXCEPT !.is_hidden = TRUE]]

\* the cordons of the singular cordon blocks and of the children of the
\* cordons blocks, in file order
RECURSIVE ExpectedCordons(_)
ExpectedCordons(f) ==
    IF f = <<>> THEN <<>>
    ELSE (CASE ToLower(f[1].name) = "cordon" ->
                    <<Cordon_try_from(BlockOf(f[1])).val>>
            [] ToLower(f[1].name) = "cordons" ->
                    Cordons_try_from(BlockOf(f[1])).val.cordons
            [] OTHER -> <<>>)
         \o ExpectedCordons(Tail(f))

\* C6: when every block converts, entities holds one Entity per top-level
\* entity block, hiddens one per top-level hidden block with a child, and
\* the cordons list one Cordon per singular cordon block and per cordon
\* child of any cordons block, each in file order, none lost.
C6_ListsAccumulate ==
    pc = "parsed" =>
        /\ doc.val.entities = ExpectedEntities(file)
        /\ doc.val.hiddens = ExpectedHiddens(file)
        /\ doc.val.cordons.cordons = ExpectedCordons(file)

\* C7: after parse and after any merges every element of hiddens has
\* is_hidden = true and every element of entities has is_hidden = false; a
\* top-level hidden block with a child adds its first child, as an Entity,
\* to hiddens and nothing to entities; one without children adds nothing
\* and raises no error.
C7_HiddenFlags ==
    /\ pc # "failed"
    /\ pc = "parsed" =>
        /\ \A i \in 1..Len(doc.val.hiddens) : doc.val.hiddens[i].is_hidden
        /\ \A i \in 1..Len(doc.val.entities) : ~doc.val.entities[i].is_hidden
        /\ merges = 0 =>
            /\ doc.val.hiddens = ExpectedHiddens(file)
            /\ Len(doc.val.entities) = Len(TopsNamed(file, "entity"))

\* a file with a hidden block with children and one without was parsed and
\* merged with a document that has entities and hidden entities
C7_Witness ==
    /\ pc = "parsed"
    /\ file = <<HiddenA, HiddenEmpty>>
    /\ merges >= 1
    /\ Len(doc.val.hiddens) >= 2
    /\ doc.val.entities # <<>>

\* C8: after a.merge(b) each of visgroups.groups, world.solids,
\* world.hidden, entities, hiddens and cordons.cordons of a is the list a
\* had followed by the list of b, nothing dropped, reordered or
\* deduplicated.
C8_MergeAppends ==
    merges >= 1 =>
        /\ doc.val.visgroups.groups
             = before.visgroups.groups \o other.visgroups.groups
        /\ doc.val.world.solids = before.world.solids \o other.world.solids
        /\ doc.val.world.hidden = before.world.hidden \o other.world.hidden
        /\ doc.val.entities = before.entities \o other.entities
        /\ doc.val.hiddens = before.hiddens \o other.hiddens
        /\ doc.val.cordons.cordons
             = before.cordons.cordons \o other.cordons.cordons

\* the two documents of a merge had an entity, a hidden entity, a solid
\* and a visgroup in common, ids included
C8_Witness ==
    /\ merges >= 1
    /\ \E i \in 1..Len(before.entities) : \E j \in 1..Len(other.entities) :
          before.entities[i] = other.entities[j]
    /\ \E i \in 1..Len(before.hiddens) : \E j \in 1..Len(other.hiddens) :
          before.hiddens[i] = other.hiddens[j]
    /\ Len(doc.val.entities) = Len(before.entities) + Len(other.entities)

\* C9: a.merge(b) leaves the versioninfo, viewsettings, cameras, path,
\* world key-values, world group and cordons.active of a as they were.
C9_MergeFrame ==
    merges >= 1 =>
        /\ doc.val.versioninfo = before.versioninfo
        /\ doc.val.viewsettings = before.viewsettings
        /\ doc.val.cameras = before.cameras
        /\ doc.val.path = before.path
        /\ doc.val.world.key_values = before.world.key_values
        /\ doc.val.world.group = before.world.group
        /\ doc.val.cordons.active = before.cordons.active

\* the merged document differed from a in each of these except the path
C9_Witness ==
    /\ merges >= 1
    /\ other.versioninfo # before.versioninfo
    /\ other.viewsettings # before.viewsettings
    /\ other.cameras # before.cameras
    /\ other.world.key_values # before.world.key_values
    /\ other.world.group # before.world.group
    /\ other.cordons.active # before.cordons.active

\* the names parse_vmf has an arm for
KnownNames ==
    {"versioninfo", "visgroups", "viewsettings", "world", "entity", "hidden",
     "cameras", "cordons", "cordon"}

\* the file without its blocks of unrecognised names
WithoutUnknown(f) == SelectSeq(f, LAMBDA b : ToLower(b.name) \in KnownNames)

\* C10: a block of an unrecognised name, whatever is nested in it and
\* wherever it stands in a valid input, does not make parse fail, and parse
\* returns the document of the input without the block.
C10_UnknownIgnored ==
    (pc \in {"parsed", "failed"}
        /\ parse_vmf(FileText(WithoutUnknown(file))).ok) =>
        doc = parse_vmf(FileText(WithoutUnknown(file)))

\* a file with a block of an unrecognised name before or after a
\* recognised block was parsed
C10_Witness ==
    /\ pc = "parsed"
    /\ Len(file) = 2
    /\ Len(WithoutUnknown(file)) = 1
    /\ doc.val # VmfFile_default

\* a block of the file has a line that breaks its structure
IsMalformed(f) ==
    \E i \in 1..Len(f) : \E j \in 1..Len(f[i].items) :
        f[i].items[j].rule = "raw"

\* C11: for input with unbalanced braces, an unterminated block or a key
\* without a value, parse returns Err(VmfError::Parse), never Ok with a
\* document built from the well-formed prefix.
C11_MalformedFails ==
    (pc # "start" /\ IsMalformed(file)) => doc = Err(ParseError)

\* a file with a well-formed block before the malformed one was parsed
C11_Witness ==
    /\ pc = "failed"
    /\ Len(file) >= 2
    /\ ~IsMalformed(<<file[1]>>)
    /\ IsMalformed(<<file[2]>>)

\* the children of a dispinfo block that are converted as DispRows
DispRowsNames ==
    {"normals", "distances", "offsets", "offset_normals", "alphas",
     "triangle_tags"}

\* the type a converter gives to a child block, by the child's name
ChildType(type, name) ==
    CASE type \in {"World", "Entity"} /\ name = "solid" -> "Solid"
      [] type = "World" /\ name = "group" -> "Group"
      [] type = "Solid" /\ name = "side" -> "Side"
      [] type = "Side" /\ name = "dispinfo" -> "DispInfo"
      [] type \in {"VisGroups", "VisGroup"} /\ name = "visgroup" -> "VisGroup"
      [] type = "Cameras" /\ name = "camera" -> "Camera"
      [] type = "Cordons" /\ name = "cordon" -> "Cordon"
      [] type = "DispInfo" /\ name \in DispRowsNames -> "DispRows"
      [] type = "DispInfo" /\ name = "allowed_verts" -> "AllowedVerts"
      [] type \in {"Solid", "Entity", "Group"} /\ name = "editor" -> "Editor"
      [] OTHER -> "none"

\* the blocks a converter of a type converts in turn: its typed children,
\* and the first child, as a Solid, of each hidden child of a world or an
\* entity
TypedChildren(type, top) ==
    {[type |-> ChildType(type, c.name), top |-> c] :
        c \in {ChildTops(top)[i] : i \in 1..Len(ChildTops(top))}}
    \cup {[type |-> "Solid", top |-> ChildTops(c)[1]] :
            c \in {h \in {ChildTops(top)[i] : i \in 1..Len(ChildTops(top))} :
                      /\ type \in {"World", "Entity"}
                      /\ h.name = "hidden"
                      /\ ChildTops(h) # <<>>}}

\* a typed block and all the typed blocks below it
RECURSIVE TypedBelow(_)
TypedBelow(tb) ==
    IF tb.type = "none" THEN {}
    ELSE {tb} \cup UNION {TypedBelow(c) : c \in TypedChildren(tb.type, tb.top)}

\* the type parse_vmf gives to a top-level block
TopType(name) ==
    CASE name = "versioninfo" -> "VersionInfo"
      [] name = "visgroups" -> "VisGroups"
      [] name = "viewsettings" -> "ViewSettings"
      [] name = "world" -> "World"
      [] name = "entity" -> "Entity"
      [] name = "cameras" -> "Cameras"
      [] name = "cordons" -> "Cordons"
      [] name = "cordon" -> "Cordon"
      [] OTHER -> "none"

\* every block of a file that is converted, with its type, at any depth
TypedBlocks(f) ==
    UNION {TypedBelow([type |-> TopType(ToLower(f[i].name)), top |-> f[i]]) :
            i \in 1..Len(f)}
    \cup UNION {TypedBelow([type |-> "Entity", top |-> ChildTops(f[i])[1]]) :
            i \in {j \in 1..Len(f) : /\ ToLower(f[j].name) = "hidden"
                                     /\ ChildTops(f[j]) # <<>>}}

\* T::try_from(block), by the type
TryFrom(type, block) ==
    CASE type = "VersionInfo" -> VersionInfo_try_from(block)
      [] type = "VisGroups" -> VisGroups_try_from(block)
      [] type = "VisGroup" -> VisGroup_try_from(block)
      [] type = "ViewSettings" -> ViewSettings_try_from(block)
      [] type = "World" -> World_try_from(block)
      [] type = "Solid" -> Solid_try_from(block)
      [] type = "Side" -> Side_try_from(block)
      [] type = "DispInfo" -> DispInfo_try_from(block)
      [] type = "Group" -> Group_try_from(block)
      [] type = "Entity" -> Entity_try_from(block)
      [] type = "Cameras" -> Cameras_try_from(block)
      [] type = "Camera" -> Camera_try_from(block)
      [] type = "Cordons" -> Cordons_try_from(block)
      [] type = "Cordon" -> Cordon_try_from(block)
      [] type = "DispRows" -> DispRows_try_from(block)
      [] type = "AllowedVerts" -> parse_allowed_verts(block)
      [] type = "Editor" -> Editor_try_from(block)

\* the conversion of a block of a file
Converted(tb) == TryFrom(tb.type, BlockOf(tb.top))

\* C12: whenever the conversion of a block at any depth fails, the
\* enclosing conversions and parse return that error and no document.
C12_AllOrNothing ==
    pc # "start" =>
        \A tb \in TypedBlocks(file) : ~Converted(tb).ok => doc = Converted(tb)

\* the keys each converter requires
RequiredKeys(type) ==
    CASE type = "VersionInfo" ->
            {"editorversion", "editorbuild", "mapversion", "formatversion",
             "prefab"}
      [] type = "VisGroup" -> {"name", "visgroupid", "color"}
      [] type = "ViewSettings" ->
            {"bSnapToGrid", "bShowGrid", "bShowLogicalGrid", "nGridSpacing"}
      [] type \in {"Solid", "Group"} -> {"id"}
      [] type = "Side" ->
            {"plane", "material", "uaxis", "vaxis", "id", "lightmapscale",
             "smoothing_groups"}
      [] type = "DispInfo" -> {"power", "startposition", "elevation", "subdiv"}
      [] type = "Cameras" -> {"activecamera"}
      [] type = "Camera" -> {"position", "look"}
      [] type = "Cordons" -> {"active"}
      [] type = "Cordon" -> {"name", "active"}
      [] OTHER -> {}

\* the required keys whose value is an integer, and those whose value is a
\* float
IntKeys(type) ==
    CASE type = "VersionInfo" ->
            {"editorversion", "editorbuild", "mapversion", "formatversion"}
      [] type = "VisGroup" -> {"visgroupid"}
      [] type = "ViewSettings" -> {"nGridSpacing"}
      [] type \in {"Solid", "Group"} -> {"id"}
      [] type = "Side" -> {"id", "lightmapscale", "smoothing_groups"}
      [] type = "DispInfo" -> {"power"}
      [] type = "Cameras" -> {"activecamera"}
      [] type = "Cordons" -> {"active"}
      [] OTHER -> {}

FloatKeys(type) == IF type = "DispInfo" THEN {"elevation"} ELSE {}

\* the key-value lines of a block of a file, and their keys
DirectLines(top) ==
    {top.items[i] : i \in {j \in 1..Len(top.items) :
                              top.items[j].rule = "key_value"}}

DirectKeys(top) == {kv.key : kv \in DirectLines(top)}

\* some line of the block gives the key the value that is not a number
HasBadValue(top, key) ==
    \E kv \in DirectLines(top) : kv.key = key /\ kv.value = NotANumber

\* the result is the InvalidFormat error with the key's name in its message
IsMissingKeyError(res, key) ==
    /\ ~res.ok
    /\ res.err.kind = "InvalidFormat"
    /\ IsInfix(key, res.err.key)

\* what the claim C13 says of one converted block
ErrorsNameKey(tb) ==
    /\ \A k \in RequiredKeys(tb.type) \ DirectKeys(tb.top) :
            IsMissingKeyError(Converted(tb), k)
    /\ \A k \in IntKeys(tb.type) :
            HasBadValue(tb.top, k) => Converted(tb) = Err(ParseIntError(k))
    /\ \A k \in FloatKeys(tb.type) :
            HasBadValue(tb.top, k) => Converted(tb) = Err(ParseFloatError(k))
    /\ tb.type = "DispRows" =>
            \A kv \in DirectLines(tb.top) :
                kv.key = "row" \o NotANumber =>
                    Converted(tb) = Err(ParseIntError(kv.key))
    /\ tb.type = "AllowedVerts" =>
            \A kv \in DirectLines(tb.top) :
                kv.value = NotANumber =>
                    Converted(tb) = Err(ParseIntError(kv.key))

\* C13: in every typed converter a missing required key gives InvalidFormat
\* with the key's name in the message, and a required numeric key whose
\* value does not parse gives ParseInt or ParseFloat whose key field is the
\* name of that key; so for the versioninfo integers, nGridSpacing, the
\* ids, the row<N> keys of DispRows and the entries of allowed_verts.
C13_ErrorsNameKey ==
    pc # "start" => \A tb \in TypedBlocks(file) : ErrorsNameKey(tb)

\* the optional numeric keys of a converter, each with the field it fills
OptionalKeys(type) ==
    CASE type = "Side" -> {<<"rotation", "rotation">>, <<"flags", "flags">>}
      [] type = "Editor" ->
            {<<"visgroupid", "visgroup_id">>, <<"groupid", "group_id">>}
      [] type = "DispInfo" -> {<<"flags", "flags">>}
      [] OTHER -> {}

\* the items of a block without the lines of a key
RECURSIVE DropKey(_, _)
DropKey(items, key) ==
    IF items = <<>> THEN <<>>
    ELSE (IF items[1].rule = "key_value" /\ items[1].key = key
          THEN <<>> ELSE <<items[1]>>)
         \o DropKey(Tail(items), key)

WithoutKey(tb, key) == [tb EXCEPT !.top.items = DropKey(@, key)]

\* the key is absent from the block or its value is not a number
AbsentOrBad(top, key) == key \notin DirectKeys(top) \/ HasBadValue(top, key)

\* the key decodes to None, and the conversion fails only if it fails
\* without the key as well, with the same error
NeverFails(tb, res, opt) ==
    IF res.ok THEN res.val[opt[2]] = None
    ELSE res = Converted(WithoutKey(tb, opt[1]))

\* C14: the optional numeric keys (rotation and flags of a side, visgroupid
\* and groupid of an editor, flags of a dispinfo) never make a conversion
\* fail: absent or unparsable they decode to None; a side without the
\* required lightmapscale fails with InvalidFormat.
C14_OptionalKeys ==
    pc # "start" =>
        \A tb \in TypedBlocks(file) :
            /\ \A opt \in OptionalKeys(tb.type) :
                    AbsentOrBad(tb.top, opt[1]) =>
                        NeverFails(tb, Converted(tb), opt)
            /\ (tb.type = "Side" /\ "lightmapscale" \notin DirectKeys(tb.top))
                    => /\ ~Converted(tb).ok
                       /\ Converted(tb).err.kind = "InvalidFormat"
                       /\ doc = Converted(tb)

\* a file was parsed into a document although a side of it has an
\* unparsable flags value or an editor an unparsable groupid
C14_Witness ==
    /\ pc = "parsed"
    /\ \E tb \in TypedBlocks(file) :
            /\ tb.type \in {"Side", "Editor"}
            /\ HasBadValue(tb.top, "flags") \/ HasBadValue(tb.top, "groupid")

\* the largest index of a row key the inputs have
MaxRowIndex == 3

\* the indices N whose key row<N> the block has
RowIndices(top) == {n \in 0..MaxRowIndex : RowKey(n) \in DirectKeys(top)}

\* every row key of the block is row<N> for an index N
RowKeysParse(top) ==
    \A k \in DirectKeys(top) :
        IsSome(StripPrefix(k, "row")) =>
            \E n \in 0..MaxRowIndex : k = RowKey(n)

SetMax(S) == CHOOSE n \in S : \A m \in S : m <= n

\* the value of the key in the block
ValueAt(top, key) == (CHOOSE kv \in DirectLines(top) : kv.key = key).value

\* the rows the claim C15 expects of a block
ExpectedRows(top) ==
    IF RowIndices(top) = {} THEN <<>>
    ELSE [i \in 1..(SetMax(RowIndices(top)) + 1) |->
            IF (i - 1) \in RowIndices(top) THEN ValueAt(top, RowKey(i - 1))
            ELSE ""]

\* C15: the rows of a converted DispRows block are as many as the largest N
\* among its row<N> keys plus one, none without such a key; rows[N] is the
\* value of row<N> and every other index holds the empty string, whatever
\* the order of the keys.
C15_DispRows ==
    pc # "start" =>
        \A tb \in TypedBlocks(file) :
            (tb.type = "DispRows" /\ RowKeysParse(tb.top)) =>
                Converted(tb) = Ok([rows |-> ExpectedRows(tb.top)])

\* a file was parsed whose dispinfo has a block with the keys row0 and row3
\* alone, one with row3 before row0 and one without row keys
C15_Witness ==
    /\ pc = "parsed"
    /\ \E tb \in TypedBlocks(file) :
            /\ tb.type = "DispRows"
            /\ RowIndices(tb.top) = {0, 3}
            /\ tb.top.items[1].key = RowKey(0)
            /\ Len(Converted(tb).val.rows) = 4
    /\ \E tb \in TypedBlocks(file) :
            /\ tb.type = "DispRows"
            /\ RowIndices(tb.top) = {0, 3}
            /\ tb.top.items[1].key = RowKey(3)
    /\ \E tb \in TypedBlocks(file) :
            tb.type = "DispRows" /\ tb.top.items = <<>>

BoundsKeys == {"mins", "maxs"}

\* the sub-blocks of a block that are named box
Boxes(top) == SelectSeq(ChildTops(top), LAMBDA b : b.name = "box")

\* a cordon with its bounds in a box sub-block alone
IsBoxed(top) ==
    /\ Len(ChildTops(top)) = 1
    /\ Len(Boxes(top)) = 1
    /\ BoundsKeys \subseteq DirectKeys(Boxes(top)[1])
    /\ BoundsKeys \cap DirectKeys(top) = {}

\* the items of a block that are key-value lines
LinesOf(items) == SelectSeq(items, LAMBDA it : it.rule = "key_value")

\* the cordon with the lines of its box as its own, and no box
Unboxed(tb) ==
    [tb EXCEPT !.top.items = LinesOf(@) \o LinesOf(Boxes(tb.top)[1].items)]

\* C16: a cordon with mins and maxs in a box sub-block and the cordon with
\* the same mins and maxs as its own keys, name and active being the same,
\* convert to equal Cordon values.
C16_BoxOrDirect ==
    pc # "start" =>
        \A tb \in TypedBlocks(file) :
            (tb.type = "Cordon" /\ IsBoxed(tb.top)) =>
                Converted(tb) = Converted(Unboxed(tb))

\* a file with a boxed cordon was parsed, and the cordon converts
C16_Witness ==
    /\ pc = "parsed"
    /\ \E tb \in TypedBlocks(file) :
            /\ tb.type = "Cordon"
            /\ IsBoxed(tb.top)
            /\ Converted(tb).ok
            /\ Converted(tb).val.min = "(-64 -64 -64)"

\* the block the claim C17 names as the source of mins and maxs: the first
\* sub-block named box when it has both keys, else the cordon block
BoundsSource(top) ==
    IF Boxes(top) # <<>> /\ BoundsKeys \subseteq DirectKeys(Boxes(top)[1])
    THEN Boxes(top)[1]
    ELSE top

\* what the claim C17 says of a cordon block and its conversion
TakesBounds(top, res) ==
    IF ~(BoundsKeys \subseteq DirectKeys(BoundsSource(top)))
    THEN ~res.ok /\ res.err.kind = "InvalidFormat"
    ELSE /\ res.ok <=> {"name", "active"} \subseteq DirectKeys(top)
         /\ res.ok => /\ res.val.min = ValueAt(BoundsSource(top), "mins")
                       /\ res.val.max = ValueAt(BoundsSource(top), "maxs")

\* C17: a cordon takes mins and maxs from its sub-block named box when that
\* has both keys; without a box sub-block, or when it lacks either key, it
\* takes both from its own key-values; missing there too, the conversion
\* fails with InvalidFormat.
C17_BoundsSource ==
    pc # "start" =>
        \A tb \in TypedBlocks(file) :
            tb.type = "Cordon" => TakesBounds(tb.top, Converted(tb))

\* a hidden block with a child
IsFullHidden(b) == b.name = "hidden" /\ ChildTops(b) # <<>>

\* the first children of the hidden blocks of a block, in block order
HiddenFirsts(top) ==
    LET hs == SelectSeq(ChildTops(top), IsFullHidden)
    IN  [i \in 1..Len(hs) |-> ChildTops(hs[i])[1]]

\* the solid children of a block, in block order
DirectSolids(top) == SelectSeq(ChildTops(top), LAMBDA b : b.name = "solid")

\* the solid children and the first children of the hidden blocks together,
\* in block order
SolidsAndHiddenFirsts(top) ==
    LET cs == SelectSeq(ChildTops(top),
                        LAMBDA b : b.name = "solid" \/ IsFullHidden(b))
    IN  [i \in 1..Len(cs) |->
            IF cs[i].name = "solid" THEN cs[i] ELSE ChildTops(cs[i])[1]]

\* the blocks converted as Solids
AsSolids(tops) == [i \in 1..Len(tops) |-> Solid_try_from(BlockOf(tops[i]))]

Values(results) == [i \in 1..Len(results) |-> results[i].val]

\* what the claim C18 says of a world block and of an entity block
HiddenInWorld(top, res) ==
    /\ res.ok <=> AllOk(AsSolids(SolidsAndHiddenFirsts(top)))
    /\ res.ok => /\ res.val.hidden = Values(AsSolids(HiddenFirsts(top)))
                  /\ res.val.solids = Values(AsSolids(DirectSolids(top)))

HiddenInEntity(top, res) ==
    /\ res.ok <=> AllOk(AsSolids(SolidsAndHiddenFirsts(top)))
    /\ res.ok =>
            res.val.solids =
                IF SolidsAndHiddenFirsts(top) = <<>> THEN None
                ELSE Some(Values(AsSolids(SolidsAndHiddenFirsts(top))))

\* C18: World::try_from adds the first child of each hidden child that has a
\* child, as a Solid, to world.hidden and not to world.solids, in block
\* order; Entity::try_from adds it to the entity's solids together with the
\* direct solid children, in block order; the further children of a hidden
\* block are ignored and an empty hidden block adds nothing and no error.
C18_HiddenSolids ==
    pc # "start" =>
        \A tb \in TypedBlocks(file) :
            /\ tb.type = "World" => HiddenInWorld(tb.top, Converted(tb))
            /\ tb.type = "Entity" => HiddenInEntity(tb.top, Converted(tb))

\* a world with hidden blocks of two, none and one child was parsed, and
\* its document has the two first children as hidden solids
C18_Witness ==
    /\ pc = "parsed"
    /\ file[Len(file)] = WorldHid
    /\ Len(doc.val.world.hidden) = 2
    /\ doc.val.world.hidden[1].id = 60
    /\ doc.val.world.hidden[2].id = 63
    /\ Len(doc.val.world.solids) = 1

\* the boolean keys of a converter, each with the field it fills
BoolKeys(type) ==
    CASE type = "VersionInfo" -> {<<"prefab", "prefab">>}
      [] type = "ViewSettings" ->
            {<<"bSnapToGrid", "snap_to_grid">>, <<"bShowGrid", "show_grid">>,
             <<"bShowLogicalGrid", "show_logical_grid">>,
             <<"bShow3DGrid", "show_3d_grid">>}
      [] type = "Editor" ->
            {<<"visgroupshown", "visgroup_shown">>,
             <<"visgroupautoshown", "visgroup_auto_shown">>}
      [] type = "DispInfo" -> {<<"subdiv", "subdiv">>}
      [] type = "Cordon" -> {<<"active", "active">>}
      [] OTHER -> {}

\* From<T> for VmfBlock and T::to_vmf_string(0), by the type
IntoBlock(type, val) ==
    CASE type = "VersionInfo" -> VersionInfo_into(val)
      [] type = "ViewSettings" -> ViewSettings_into(val)
      [] type = "Editor" -> Editor_into(val)
      [] type = "DispInfo" -> DispInfo_into(val)
      [] type = "Cordon" -> Cordon_into(val)

ToVmfString(type, val) ==
    CASE type = "VersionInfo" -> VersionInfo_to_vmf_string(val, 0)
      [] type = "ViewSettings" -> ViewSettings_to_vmf_string(val, 0)
      [] type = "Editor" -> Editor_to_vmf_string(val, 0)
      [] type = "DispInfo" -> DispInfo_to_vmf_string(val, 0)
      [] type = "Cordon" -> Cordon_to_vmf_string(val, 0)

\* the block with the value of every line of the key replaced
RECURSIVE SetValue(_, _, _)
SetValue(items, key, value) ==
    IF items = <<>> THEN <<>>
    ELSE <<IF items[1].rule = "key_value" /\ items[1].key = key
           THEN [items[1] EXCEPT !.value = value] ELSE items[1]>>
         \o SetValue(Tail(items), key, value)

WithValue(tb, key, value) == [tb EXCEPT !.top.items = SetValue(@, key, value)]

Bit(b) == IF b THEN "1" ELSE "0"

\* the lines of a text, as a set
LineSet(text) == {text[i] : i \in 1..Len(text)}

\* what the claim C19 says of a boolean key of a converted value: decoded by
\* equality to "1", written as "0" or "1" by both writers, and the same
\* when the written block is converted back
BoolAsBit(type, top, val, key, field) ==
    /\ key \in DirectKeys(top) => val[field] = (ValueAt(top, key) = "1")
    /\ KvGet(IntoBlock(type, val).key_values, key) = Some(Bit(val[field]))
    /\ KvLine("", key, Bit(val[field])) \in LineSet(ToVmfString(type, val))
    /\ TryFrom(type, IntoBlock(type, val)).ok
    /\ TryFrom(type, IntoBlock(type, val)).val[field] = val[field]

\* C19: every boolean field (prefab, the viewsettings flags, visgroupshown,
\* visgroupautoshown, subdiv, a cordon's active) is written as "0" or "1",
\* never as true or false, and converting back gives the same boolean; a
\* present value other than "1" decodes to false without an error.
C19_Booleans ==
    /\ pc # "start" =>
        \A tb \in TypedBlocks(file) :
            \A bk \in BoolKeys(tb.type) :
                /\ Converted(tb).ok =>
                        BoolAsBit(tb.type, tb.top, Converted(tb).val,
                                  bk[1], bk[2])
                /\ HasBadValue(tb.top, bk[1]) =>
                        Converted(tb) = Converted(WithValue(tb, bk[1], "0"))
    /\ (pc = "reparsed" /\ reparsed.ok) =>
        /\ reparsed.val.versioninfo.prefab = doc.val.versioninfo.prefab
        /\ \A bk \in BoolKeys("ViewSettings") :
                reparsed.val.viewsettings[bk[2]] = doc.val.viewsettings[bk[2]]

\* a viewsettings block with one flag "1" and another neither "0" nor "1"
\* was parsed, written and parsed again
C19_Witness ==
    /\ pc = "reparsed"
    /\ reparsed.ok
    /\ reparsed.val.viewsettings.snap_to_grid
    /\ \E tb \in TypedBlocks(file) :
            /\ tb.type = "ViewSettings"
            /\ HasBadValue(tb.top, "bShowGrid")
            /\ Converted(tb).ok
            /\ Converted(tb).val.snap_to_grid
            /\ ~Converted(tb).val.show_grid

\* the versioninfo the scenario expects
ScenarioVersionInfo ==
    [editor_version |-> 400, editor_build |-> 8000, map_version |-> 1,
     format_version |-> 100, prefab |-> FALSE]

\* the input of the scenario parses to the expected versioninfo
ScenarioParses ==
    (file = <<VersionInfoA>> /\ pc # "start") =>
        doc.ok /\ doc.val.versioninfo = ScenarioVersionInfo

\* C20: the input that is the versioninfo block alone (400, 8000, 1, 100,
\* prefab 0) parses to a document whose versioninfo is
\* VersionInfo{400, 8000, 1, 100, false}, and the to_vmf_string() of that
\* document equals the input byte for byte.
C20_Scenario ==
    /\ ScenarioParses
    /\ (file = <<VersionInfoA>> /\ pc = "written") => output = FileText(file)

\* ------------------------------------------------------------------------
\* A caller of the methods of Entity: an entity made by Entity::new, then
\* calls of set and remove_key, or of add_connection, clear_connections and
\* has_connection
\* ------------------------------------------------------------------------
MaxCalls == 3

\* what a caller of the methods leaves alone
parsing == <<file, pc, doc, output, reparsed, output2, merges, before, other>>

\* no file is parsed
NoDocument ==
    /\ file = <<>>
    /\ doc = NoResult
    /\ output = <<>>
    /\ reparsed = NoResult
    /\ output2 = <<>>
    /\ merges = 0
    /\ before = VmfFile_default
    /\ other = VmfFile_default

\* Entity::new("logic_relay", 1)
NewEntity ==
    /\ entity = Entity_new("logic_relay", 1)
    /\ calls = <<>>
    /\ ret = None

Keys == {"id", "targetname", "origin"}

KeyValues == {"a", "b"}

InitKeys == pc = "keys" /\ NoDocument /\ NewEntity

\* entity.set(key, value)
Set ==
    /\ pc = "keys"
    /\ Len(calls) < MaxCalls
    /\ \E key \in Keys, value \in KeyValues :
          /\ entity' = Entity_set(entity, key, value)
          /\ calls' = Append(calls, [op |-> "set", key |-> key,
                                     value |-> value])
    /\ ret' = None
    /\ UNCHANGED parsing

\* entity.remove_key(key)
RemoveKey ==
    /\ pc = "keys"
    /\ Len(calls) < MaxCalls
    /\ \E key \in Keys :
          /\ entity' = Entity_remove_key(entity, key).self
          /\ ret' = Entity_remove_key(entity, key).ret
          /\ calls' = Append(calls, [op |-> "remove_key", key |-> key,
                                     value |-> ""])
    /\ UNCHANGED parsing

NextKeys == Set \/ RemoveKey

SpecKeys == InitKeys /\ [][NextKeys]_vars

\* the calls that gave the entity its keys, those of Entity::new first
KeyCalls(cs) ==
    <<[op |-> "set", key |-> "classname", value |-> "logic_relay"],
      [op |-> "set", key |-> "id", value |-> "1"]>> \o cs

\* the last removal of the key among the calls, 0 without one
LastRemoval(h, key) ==
    LET at == {i \in 1..Len(h) : h[i].op = "remove_key" /\ h[i].key = key}
    IN  IF at = {} THEN 0 ELSE SetMax(at)

\* the calls that set the key after its last removal
SetsSince(h, key) ==
    {i \in 1..Len(h) :
        h[i].op = "set" /\ h[i].key = key /\ i > LastRemoval(h, key)}

SetMin(S) == CHOOSE n \in S : \A m \in S : n <= m

\* the surviving keys by the call that inserted them, each with the value
\* of the last call that set it
RECURSIVE InInsertionOrder(_, _)
InInsertionOrder(h, firsts) ==
    IF firsts = {} THEN <<>>
    ELSE LET i == SetMin(firsts)
         IN  <<<<h[i].key, h[SetMax(SetsSince(h, h[i].key))].value>>>>
             \o InInsertionOrder(h, firsts \ {i})

ExpectedKeyValues(h) ==
    InInsertionOrder(h, {SetMin(SetsSince(h, k)) :
                            k \in {h[i].key : i \in 1..Len(h)}
                                  \ {k \in {h[i].key : i \in 1..Len(h)} :
                                        SetsSince(h, k) = {}}})

\* the value of the key before the last call, None when it had none
ValueBefore(h, key) ==
    IF SetsSince(h, key) = {} THEN None
    ELSE Some(h[SetMax(SetsSince(h, key))].value)

LastCall == calls[Len(calls)]

\* C21: after any sequence of set and remove_key calls the key_values of
\* the entity, as iterated and as serialized, are the surviving keys in the
\* order of their insertion since their last removal, each with the value
\* last set; remove_key returns the removed value, None when absent.
C21_InsertionOrder ==
    pc = "keys" =>
        /\ entity.key_values = ExpectedKeyValues(KeyCalls(calls))
        /\ SubSeq(Entity_to_vmf_string(entity, 0), 3, 2 + Len(entity.key_values))
                = KvLines("", ExpectedKeyValues(KeyCalls(calls)))
        /\ (calls # <<>> /\ LastCall.op = "remove_key") =>
                ret = ValueBefore(KeyCalls(SubSeq(calls, 1, Len(calls) - 1)),
                                  LastCall.key)

\* a key was removed from before other keys and then set again: it is now
\* the last key, and the removal returned its value
C21_Witness ==
    /\ pc = "keys"
    /\ Len(calls) = 3
    /\ calls[1].op = "set" /\ calls[1].key = "targetname"
    /\ calls[2].op = "remove_key" /\ calls[2].key = "id"
    /\ calls[3].op = "set" /\ calls[3].key = "id"
    /\ entity.key_values[3][1] = "id"

\* the connections a caller adds: the arguments of add_connection, with the
\* text the delay and the fire limit are expected to be written as
Connection(event, target, input, parms, delay, fire_limit, fire_text) ==
    [op |-> "add_connection", output |-> event, target |-> target,
     input |-> input, parms |-> parms, delay |-> delay,
     fire_limit |-> fire_limit, fire_text |-> fire_text]

Connections ==
    {Connection("OnTrigger", "door", "Open", "", "0", -1, "-1"),
     Connection("OnTrigger", "door", "Close", "", "0.5", 1, "1"),
     Connection("OnUser1", "lamp", "TurnOn", "x", "0", -1, "-1")}

\* target ESC input ESC parms ESC delay ESC fire_limit of a connection
InputOf(c) ==
    c.target \o ESC \o c.input \o ESC \o c.parms \o ESC \o c.delay \o ESC
    \o c.fire_text

InitConnections == pc = "connections" /\ NoDocument /\ NewEntity

\* entity.add_connection(output, target, input, parms, delay, fire_limit)
AddConnection ==
    /\ pc = "connections"
    /\ Len(calls) < MaxCalls
    /\ \E c \in Connections :
          /\ entity' = Entity_add_connection(entity, c.output, c.target,
                            c.input, c.parms, ParseF32(c.delay)[1],
                            c.fire_limit)
          /\ calls' = Append(calls, c)
    /\ ret' = None
    /\ UNCHANGED parsing

\* entity.clear_connections()
ClearConnections ==
    /\ pc = "connections"
    /\ Len(calls) < MaxCalls
    /\ entity' = Entity_clear_connections(entity)
    /\ calls' = Append(calls, [op |-> "clear_connections"])
    /\ ret' = None
    /\ UNCHANGED parsing

\* entity.has_connection(output, input)
HasConnection ==
    /\ pc = "connections"
    /\ Len(calls) < MaxCalls
    /\ \E o \in {c.output : c \in Connections},
          i \in {InputOf(c) : c \in Connections} :
          /\ ret' = Some(Entity_has_connection(entity, o, i))
          /\ calls' = Append(calls, [op |-> "has_connection", output |-> o,
                                     input |-> i])
    /\ UNCHANGED <<entity, parsing>>

NextConnections == AddConnection \/ ClearConnections \/ HasConnection

SpecConnections == InitConnections /\ [][NextConnections]_vars

\* the add_connection calls since the last clear_connections, as tuples
AddedSince(h) ==
    LET clears == {i \in 1..Len(h) : h[i].op = "clear_connections"}
        from == IF clears = {} THEN 1 ELSE SetMax(clears) + 1
        adds == SelectSeq(SubSeq(h, from, Len(h)),
                          LAMBDA c : c.op = "add_connection")
    IN  [i \in 1..Len(adds) |-> <<adds[i].output, InputOf(adds[i])>>]

\* C22: after any sequence of add_connection and clear_connections calls on
\* an entity made by Entity::new, connections is None when no add_connection
\* came after the last clear_connections or the creation, and else the list
\* of the tuples added since, in call order, each (output, target ESC input
\* ESC parms ESC delay ESC fire_limit); has_connection(o, i) is true exactly
\* when (o, i) is in that list.
C22_Connections ==
    pc = "connections" =>
        /\ entity.connections =
                IF AddedSince(calls) = <<>> THEN None
                ELSE Some(AddedSince(calls))
        /\ (calls # <<>> /\ LastCall.op = "has_connection") =>
                ret = Some(\E k \in 1..Len(AddedSince(calls)) :
                            AddedSince(calls)[k]
                                = <<LastCall.output, LastCall.input>>)

\* a connection was added after a clear and has_connection found it
C22_Witness ==
    /\ pc = "connections"
    /\ Len(calls) = 3
    /\ calls[1].op = "clear_connections"
    /\ calls[2].op = "add_connection"
    /\ calls[3].op = "has_connection"
    /\ ret = Some(TRUE)
    /\ Len(entity.connections[1]) = 1

\* ------------------------------------------------------------------------
\* A caller that parses a file of entities and removes one by its id
\* ------------------------------------------------------------------------
MaxEntities == 3

PlainEntity(id, classname) ==
    TOP("entity", <<KV("id", id), KV("classname", classname)>>)

\* two entities of one id, an entity whose id is written with a leading
\* zero and an entity without id
EntityBlocks ==
    {PlainEntity("30", "first"), PlainEntity("30", "second"),
     PlainEntity("20", "other"), PlainEntity("07", "padded"),
     TOP("entity", <<KV("classname", "anonymous")>>)}

EntityIds == {0, 7, 20, 30, 99}

InitEntities == file \in FilesUpTo(EntityBlocks, MaxEntities) /\ NotStarted

\* doc.entities.remove_entity(entity_id)
RemoveEntity ==
    /\ pc = "parsed"
    /\ calls = <<>>
    /\ \E entity_id \in EntityIds :
          /\ doc' = [doc EXCEPT !.val.entities =
                        Entities_remove_entity(@, entity_id).self]
          /\ ret' = Entities_remove_entity(doc.val.entities, entity_id).ret
          /\ calls' = <<[op |-> "remove_entity", entity_id |-> entity_id]>>
    /\ before' = doc.val
    /\ UNCHANGED <<file, pc, output, reparsed, output2, merges, other, entity>>

NextEntities == Parse \/ RemoveEntity

SpecEntities == InitEntities /\ [][NextEntities]_vars

\* the positions of the entities whose id() is the id
WithId(entities, id) == {i \in 1..Len(entities) : Entity_id(entities[i]) = id}

\* C23: remove_entity(id) removes and returns the first entity e with
\* e.id() = id and keeps the other entities in their order; it returns None
\* and leaves the collection unchanged exactly when no entity has that id.
C23_RemoveEntity ==
    (pc = "parsed" /\ calls # <<>>) =>
        LET hits == WithId(before.entities, calls[1].entity_id)
        IN  IF hits = {}
            THEN ret = None /\ doc.val.entities = before.entities
            ELSE /\ ret = Some(before.entities[SetMin(hits)])
                 /\ doc.val.entities
                        = SubSeq(before.entities, 1, SetMin(hits) - 1)
                          \o SubSeq(before.entities, SetMin(hits) + 1,
                                    Len(before.entities))

\* ---------------------------------------------------------------------
\* Visgroup queries
\* ---------------------------------------------------------------------

MaxMembers == 2

\* a tree in which two sibling groups have the same id
VisGroupsTwice ==
    TOP("visgroups",
        <<BL("visgroup",
             <<KV("name", "walls"), KV("visgroupid", "1"),
               KV("color", "65 45 0"),
               BL("visgroup",
                  <<KV("name", "north"), KV("visgroupid", "2"),
                    KV("color", "60 35 0"),
                    BL("visgroup",
                       <<KV("name", "doors"), KV("visgroupid", "3"),
                         KV("color", "60 35 9")>>)>>),
               BL("visgroup",
                  <<KV("name", "south"), KV("visgroupid", "2"),
                    KV("color", "60 35 0"),
                    BL("visgroup",
                       <<KV("name", "windows"), KV("visgroupid", "4"),
                         KV("color", "60 35 8")>>)>>)>>)>>)

\* a tree of distinct ids, three levels deep
VisGroupsDeep ==
    TOP("visgroups",
        <<BL("visgroup",
             <<KV("name", "walls"), KV("visgroupid", "1"),
               KV("color", "65 45 0"),
               BL("visgroup",
                  <<KV("name", "north"), KV("visgroupid", "2"),
                    KV("color", "60 35 0"),
                    BL("visgroup",
                       <<KV("name", "doors"), KV("visgroupid", "3"),
                         KV("color", "60 35 9")>>)>>)>>),
          BL("visgroup",
             <<KV("name", "props"), KV("visgroupid", "4"),
               KV("color", "0 45 65")>>)>>)

VisGroupsBlocks == {VisGroupsA, VisGroupsDeep, VisGroupsTwice}

\* a point entity of a visgroup ("" for none)
EntityIn(id, visgroupid) ==
    TOP("entity",
        <<KV("id", id), KV("classname", "info_target"),
          EditorItems(visgroupid)>>)

SolidIn(id, visgroupid) ==
    BL("solid", <<KV("id", id), EditorItems(visgroupid)>>)

\* a world with solids and hidden solids of several visgroups and of none
WorldIn ==
    TOP("world",
        <<KV("id", "1"), KV("classname", "worldspawn"),
          SolidIn("2", "4"), SolidIn("3", ""), SolidIn("4", "1"),
          BL("hidden", <<SolidIn("5", "3")>>),
          BL("hidden", <<SolidIn("6", "2")>>)>>)

MemberBlocks ==
    {WorldIn, EntityA, HiddenA, EntityIn("50", "3"), EntityIn("51", "4"),
     EntityIn("52", "")}

GroupIds == {1, 2, 3, 4, 99}

InitVisgroups ==
    /\ \E first \in VisGroupsBlocks :
       \E rest \in FilesUpTo(MemberBlocks, MaxMembers) :
          file = <<first>> \o rest
    /\ NotStarted

\* the groups of a tree, each with the groups below it
RECURSIVE AllGroups(_)
AllGroups(groups) ==
    IF groups = <<>> THEN {}
    ELSE {Head(groups)}
         \cup (IF IsSome(Head(groups).children)
               THEN AllGroups(Head(groups).children[1]) ELSE {})
         \cup AllGroups(Tail(groups))

\* doc.get_entities_in_visgroup(group_id, include_children), collected
GetEntitiesInVisgroup ==
    /\ pc = "parsed"
    /\ calls = <<>>
    /\ \E group_id \in GroupIds, include_children \in BOOLEAN :
          /\ ret' = Some(get_entities_in_visgroup(doc.val, group_id,
                                                  include_children))
          /\ calls' = <<[op |-> "get_entities_in_visgroup",
                         group_id |-> group_id,
                         include_children |-> include_children]>>
    /\ UNCHANGED <<parsing, entity>>

\* doc.get_solids_in_visgroup(group_id, include_children), collected
GetSolidsInVisgroup ==
    /\ pc = "parsed"
    /\ calls = <<>>
    /\ \E group_id \in GroupIds, include_children \in BOOLEAN :
          /\ ret' = Some(get_solids_in_visgroup(doc.val, group_id,
                                                include_children))
          /\ calls' = <<[op |-> "get_solids_in_visgroup",
                         group_id |-> group_id,
                         include_children |-> include_children]>>
    /\ UNCHANGED <<parsing, entity>>

\* collect_child_visgroup_ids(group, &mut ids) on an empty set, for a group
\* of the tree
CollectChildVisgroupIds ==
    /\ pc = "parsed"
    /\ calls = <<>>
    /\ \E group \in AllGroups(doc.val.visgroups.groups) :
          /\ ret' = Some(collect_child_visgroup_ids(group, {}))
          /\ calls' = <<[op |-> "collect_child_visgroup_ids",
                         group |-> group]>>
    /\ UNCHANGED <<parsing, entity>>

NextVisgroups ==
    \/ Parse
    \/ GetEntitiesInVisgroup
    \/ GetSolidsInVisgroup
    \/ CollectChildVisgroupIds

SpecVisgroups == InitVisgroups /\ [][NextVisgroups]_vars

\* the ids of a group and of every group below it
RECURSIVE SubtreeIds(_)
SubtreeIds(group) ==
    {group.id}
    \cup (IF IsSome(group.children)
          THEN UNION {SubtreeIds(group.children[1][i]) :
                        i \in 1..Len(group.children[1])}
          ELSE {})

\* the ids a query is about: the group's own, and with include_children
\* those of its descendants
QueriedIds(groups, group_id, include_children) ==
    IF include_children
    THEN SubtreeIds(VisGroup_find_in(groups, group_id)[1])
    ELSE {group_id}

\* the items of a list whose editor names one of the ids, in list order
MembersOf(items, ids) ==
    SelectSeq(items, LAMBDA item : \E id \in ids :
                                      item.editor.visgroup_id = Some(id))

QueryCandidates ==
    IF LastCall.op = "get_entities_in_visgroup"
    THEN doc.val.entities \o doc.val.hiddens
    ELSE doc.val.world.solids \o doc.val.world.hidden

\* C24: a visgroup query gives None exactly when no group of the tree has
\* the id; otherwise it yields, from the visible list followed by the hidden
\* one, exactly the items whose editor names the group or, with
\* include_children, the group or one of its descendants
C24_VisgroupQuery ==
    (/\ calls # <<>>
     /\ LastCall.op \in {"get_entities_in_visgroup", "get_solids_in_visgroup"})
    => LET groups == doc.val.visgroups.groups
           exists == \E group \in AllGroups(groups) :
                        group.id = LastCall.group_id
       IN  /\ ret[1] = None <=> ~exists
           /\ exists =>
                ret[1] = Some(MembersOf(QueryCandidates,
                             QueriedIds(groups, LastCall.group_id,
                                        LastCall.include_children)))

\* C27: collect_child_visgroup_ids ends with the id of the start group and
\* of every group below it, also when an id occurs more than once
C27_CollectsDescendants ==
    (calls # <<>> /\ LastCall.op = "collect_child_visgroup_ids")
    => ret = Some(SubtreeIds(LastCall.group))

\* ---------------------------------------------------------------------
\* parse_block on blocks with repeated keys
\* ---------------------------------------------------------------------

MaxItems == 3

\* the items a block is made of: pairs of two keys, an empty value among
\* them, and child blocks with repeated keys of their own
BlockItems ==
    {KV("a", "1"), KV("a", "2"), KV("b", "1"), KV("b", ""),
     BL("side", <<KV("a", "3"), KV("b", "4"), KV("a", "5")>>),
     BL("editor", <<>>)}

ItemLists == FilesUpTo(BlockItems, MaxItems)

InitBlock == (\E items \in ItemLists : file = <<TOP("entity", items)>>) /\ NotStarted

\* parse_block(pair) for the block of the file
ParseBlock ==
    /\ pc = "start"
    /\ calls = <<>>
    /\ ret' = Some(BlockOf(file[1]))
    /\ calls' = <<[op |-> "parse_block"]>>
    /\ UNCHANGED <<parsing, entity>>

NextBlock == ParseBlock

SpecBlock == InitBlock /\ [][NextBlock]_vars

\* the pairs and the child blocks of a list of items, in file order
PairsOf(items) == SelectSeq(items, LAMBDA item : item.rule = "key_value")

ChildrenOf(items) == SelectSeq(items, LAMBDA item : item.rule = "block")

\* the values a key is given, in arrival order
Occurrences(pairs, key) ==
    LET given == SelectSeq(pairs, LAMBDA item : item.key = key)
    IN  [i \in 1..Len(given) |-> given[i].value]

\* the positions at which a key occurs for the first time
FirstOccurrences(pairs) ==
    {i \in 1..Len(pairs) : \A j \in 1..(i - 1) : pairs[j].key # pairs[i].key}

\* the i-th smallest element of a set of numbers
RECURSIVE Nth(_, _)
Nth(set, i) ==
    IF i = 1 THEN SetMin(set) ELSE Nth(set \ {SetMin(set)}, i - 1)

\* the distinct keys in the order of their first occurrence, each with all
\* its values joined by a carriage return
ExpectedPairs(pairs) ==
    [i \in 1..Cardinality(FirstOccurrences(pairs)) |->
        LET key == pairs[Nth(FirstOccurrences(pairs), i)].key
        IN  <<key, Join(Occurrences(pairs, key), "\r")>>]

RECURSIVE ExpectedBlock(_, _)
ExpectedBlock(name, items) ==
    VmfBlock(name, ExpectedPairs(PairsOf(items)),
             [i \in 1..Len(ChildrenOf(items)) |->
                 ExpectedBlock(ChildrenOf(items)[i].block.name,
                               ChildrenOf(items)[i].block.items)])

\* C25: parse_block keeps the distinct keys in the order of their first
\* occurrence and the child blocks in file order; a repeated key holds, at
\* the position of its first occurrence, the values of all its occurrences
\* in arrival order joined by a carriage return
C25_RepeatedKeys ==
    (calls # <<>> /\ LastCall.op = "parse_block")
    => ret = Some(ExpectedBlock(file[1].name, file[1].items))

\* a key is given twice with another key in between
C25_Witness ==
    /\ calls # <<>>
    /\ LastCall.op = "parse_block"
    /\ file[1].items = <<KV("a", "1"), KV("b", ""), KV("a", "2")>>
    /\ ret[1].key_values = <<<<"a", "1\r2">>, <<"b", "">>>>

\* ---------------------------------------------------------------------
\* DispInfo::try_from on sub-blocks that are missing or in another order
\* ---------------------------------------------------------------------

MaxMissing == 1

\* the seven sub-blocks of a dispinfo, each with rows of its own
DispSubBlocks ==
    <<RowsItems("normals", <<"0 0 1">>),
      RowsItems("distances", <<"8">>),
      RowsItems("offsets", <<"0 0 0">>),
      RowsItems("offset_normals", <<"0 1 0">>),
      RowsItems("alphas", <<"7">>),
      RowsItems("triangle_tags", <<"9">>),
      BL("allowed_verts", <<KV("10", "-1 -1 -1")>>)>>

DispKeys ==
    <<KV("power", "2"), KV("startposition", "[0 0 0]"), KV("flags", "1"),
      KV("elevation", "0.50"), KV("subdiv", "1")>>

\* the sub-blocks with up to MaxMissing of them left out
RECURSIVE Kept(_, _)
Kept(items, positions) ==
    IF items = <<>> THEN <<>>
    ELSE Kept(SubSeq(items, 1, Len(items) - 1), positions)
         \o (IF Len(items) \in positions THEN <<items[Len(items)]>> ELSE <<>>)

Selections ==
    {Kept(DispSubBlocks, positions) :
        positions \in {chosen \in SUBSET (1..Len(DispSubBlocks)) :
                         Cardinality(chosen) >= Len(DispSubBlocks) - MaxMissing}}

\* a list with the item at position i moved to position j
Moved(items, i, j) ==
    LET rest == VecRemove(items, i)
    IN  SubSeq(rest, 1, j - 1) \o <<items[i]>> \o SubSeq(rest, j, Len(rest))

Reversed(items) == [i \in 1..Len(items) |-> items[Len(items) + 1 - i]]

Orders(items) ==
    {Reversed(items)}
    \cup {Moved(items, i, j) : i \in 1..Len(items), j \in 1..Len(items)}

DispInfoInputs ==
    {TOP("dispinfo", DispKeys \o order) :
        order \in UNION {Orders(selection) : selection \in Selections}}

InitDispInfo == (\E top \in DispInfoInputs : file = <<top>>) /\ NotStarted

\* DispInfo::try_from(block) for the block of the file
ConvertDispInfo ==
    /\ pc = "start"
    /\ calls = <<>>
    /\ ret' = Some(DispInfo_try_from(BlockOf(file[1])))
    /\ calls' = <<[op |-> "DispInfo::try_from"]>>
    /\ UNCHANGED <<parsing, entity>>

NextDispInfo == ConvertDispInfo

SpecDispInfo == InitDispInfo /\ [][NextDispInfo]_vars

RequiredSubBlocks ==
    {"normals", "distances", "alphas", "triangle_tags", "allowed_verts"}

\* the child blocks of the block of the file that have a name
Named(name) ==
    SelectSeq(BlockOf(file[1]).blocks, LAMBDA block : block.name = name)

\* the rows of a sub-block where it stands in the file, empty when it is
\* missing
RowsNamed(name) ==
    IF Named(name) = <<>> THEN DispRows_default
    ELSE DispRows_try_from(Named(name)[1]).val

\* C26: DispInfo::try_from fails with InvalidFormat when one of normals,
\* distances, alphas, triangle_tags and allowed_verts is missing; a missing
\* offsets or offset_normals gives empty rows; a sub-block that is present
\* is converted whatever its position among the children
C26_SubBlocks ==
    (calls # <<>> /\ LastCall.op = "DispInfo::try_from")
    => LET result == ret[1]
       IN  IF \E name \in RequiredSubBlocks : Named(name) = <<>>
           THEN ~result.ok /\ result.err.kind = "InvalidFormat"
           ELSE /\ result.ok
                /\ result.val.normals = RowsNamed("normals")
                /\ result.val.distances = RowsNamed("distances")
                /\ result.val.offsets = RowsNamed("offsets")
                /\ result.val.offset_normals = RowsNamed("offset_normals")
                /\ result.val.alphas = RowsNamed("alphas")
                /\ result.val.triangle_tags = RowsNamed("triangle_tags")
                /\ result.val.allowed_verts
                     = parse_allowed_verts(Named("allowed_verts")[1]).val

\* the sub-blocks stand in reverse order without offsets, and the
\* conversion succeeded with empty offsets and the rows of the others
C26_Witness ==
    /\ calls # <<>>
    /\ LastCall.op = "DispInfo::try_from"
    /\ BlockOf(file[1]).blocks[1].name = "allowed_verts"
    /\ Named("offsets") = <<>>
    /\ ret[1].ok
    /\ ret[1].val.offsets = DispRows_default
    /\ ret[1].val.normals.rows = <<"0 0 1">>
    /\ ret[1].val.offset_normals.rows = <<"0 1 0">>

\* ---------------------------------------------------------------------
\* Cameras::to_vmf_string
\* ---------------------------------------------------------------------

MaxCams == 2

CameraItems ==
    {BL("camera", <<KV("position", position), KV("look", look)>>) :
        position \in {"[0 0 0]", "[0 1 0]"}, look \in {"[1 0 0]", "[0 1 0]"}}

CamerasInputs ==
    {TOP("cameras", <<KV("activecamera", active)>> \o cams) :
        active \in {"-1", "0", "1"}, cams \in FilesUpTo(CameraItems, MaxCams)}

InitCameras == (\E top \in CamerasInputs : file = <<top>>) /\ NotStarted

\* doc.cameras.to_vmf_string(0)
WriteCameras ==
    /\ pc = "parsed"
    /\ calls = <<>>
    /\ ret' = Some(Cameras_to_vmf_string(doc.val.cameras, 0))
    /\ calls' = <<[op |-> "Cameras::to_vmf_string"]>>
    /\ UNCHANGED <<parsing, entity>>

NextCameras == Parse \/ WriteCameras

SpecCameras == InitCameras /\ [][NextCameras]_vars

Quoted(key, value) == "\"" \o key \o "\" \"" \o value \o "\""

\* the position line and the look line of each camera, directly inside the
\* cameras block
FlatCameras(cams) ==
    Concat([i \in 1..Len(cams) |->
              <<"\t" \o Quoted("position", cams[i].position),
                "\t" \o Quoted("look", cams[i].look)>>])

\* a camera block of its own for each camera, its two lines inside it
NestedCameras(cams) ==
    Concat([i \in 1..Len(cams) |->
              <<"\tcamera", "\t{",
                "\t\t" \o Quoted("position", cams[i].position),
                "\t\t" \o Quoted("look", cams[i].look),
                "\t}">>])

CamerasText(val, lines) ==
    <<"cameras", "{", "\t" \o Quoted("activecamera", IntToString(val.active))>>
    \o lines \o <<"}">>

RoundTripValues(d) ==
    TypedValues(d)
    \cup {[type |-> "VisGroup", val |-> group] :
            group \in AllGroups(d.visgroups.groups)}
    \cup Tagged("Camera", d.cameras.cams)

\* VmfBlock::from(t), by the type of t
FromTyped(type, val) ==
    CASE type = "VisGroup" -> VisGroup_into(val)
      [] type = "Camera" -> Camera_into(val)
      [] OTHER -> BlockFrom(type, val)

\* T::try_from(VmfBlock::from(t)) is Ok(t)
RoundTrips(t) == TryFrom(t.type, FromTyped(t.type, t.val)) = Ok(t.val)

\* C29: for every value t of every typed struct, T::try_from(VmfBlock::from(t))
\* succeeds and gives a value equal to t
C29_BlockRoundTrip ==
    pc = "parsed" => \A t \in RoundTripValues(doc.val) : RoundTrips(t)

\* ---------------------------------------------------------------------
\* The algebra of merge
\* ---------------------------------------------------------------------

\* C30: merge is associative and the empty document is its right identity:
\* with doc = a.merge(b), merging c into doc gives the document that merging
\* b.merge(c) into a gives (c being a, b or the empty document), and merging
\* VmfFile::default() into doc leaves doc as it was
C30_MergeAlgebra ==
    merges >= 1 =>
        /\ \A c \in {before, other, VmfFile_default} :
              merge(doc.val, c) = merge(before, merge(other, c))
        /\ merge(doc.val, VmfFile_default) = doc.val
        /\ doc.val = merge(before, other)

\* two merges were made one after the other, and each document involved had
\* entities, solids and cordons of its own
C30_Witness ==
    /\ merges = 2
    /\ before.entities # <<>> /\ other.entities # <<>>
    /\ before.world.solids # <<>> /\ other.world.solids # <<>>
    /\ before.cordons.cordons # <<>> /\ other.cordons.cordons # <<>>
    /\ Len(doc.val.cordons.cordons) >= 3


====
